---------------------------- MODULE Spec2Model ----------------------------
(***************************************************************************)
(* Interrupt-driven UART driver with circular receive/transmit buffers     *)
(* (src/uart.c, built for a device with two USARTs: the ATMEGA_USART0 /    *)
(* ATMEGA_USART1 case, no URSEL register).                                 *)
(*                                                                         *)
(* Foreground functions are atomic actions in the sequential               *)
(* specifications and statement-by-statement actions in the interleaving   *)
(* specification; interrupt handlers run with interrupts disabled and are  *)
(* atomic everywhere.                                                      *)
(***************************************************************************)
EXTENDS Integers, Sequences, FiniteSets, TLC

(***************************************************************************)
(* Program constants                                                       *)
(***************************************************************************)
\* uart.h (not among the sources): buffer sizes, a power of two.
UART_RX_BUFFER_SIZE == 8
UART_TX_BUFFER_SIZE == 8
UART_RX_BUFFER_MASK == UART_RX_BUFFER_SIZE - 1
UART_TX_BUFFER_MASK == UART_TX_BUFFER_SIZE - 1
\* uart.h: the "no data" result of uart_getc and the overflow code.
UART_NO_DATA == 256
UART_BUFFER_OVERFLOW == 512
\* Status-register bit masks _BV(FE0), _BV(DOR0) (same positions on USART1).
FE == 2^4
DOR == 2^3
\* 'X', the byte stored for a reception with an error status.
ErrChar == 88

Byte == 0..255
RxIdx == 0..(UART_RX_BUFFER_SIZE - 1)
TxIdx == 0..(UART_TX_BUFFER_SIZE - 1)

\* The C operator & on non-negative integers.
RECURSIVE BitAnd(_, _)
BitAnd(x, y) ==
    IF x = 0 \/ y = 0 THEN 0
    ELSE (IF x % 2 = 1 /\ y % 2 = 1 THEN 1 ELSE 0) + 2 * BitAnd(x \div 2, y \div 2)

\* Conversion to unsigned char / unsigned int (16 bit on AVR).
U8(x) == x % 256
U16(x) == x % 65536

VARIABLES
    \* module variables of channel 0
    UART_TxBuf, UART_RxBuf, UART_TxHead, UART_TxTail, UART_RxHead, UART_RxTail,
    UART_LastRxError,
    \* module variables of channel 1
    UART1_TxBuf, UART1_RxBuf, UART1_TxHead, UART1_TxTail, UART1_RxHead,
    UART1_RxTail, UART1_LastRxError,
    \* hardware: global interrupt flag, control registers (the set of bits that
    \* are 1), the stream of bytes written to each data register, U2X flags,
    \* baud registers
    SREG_I, UART0_CONTROL, UART1_CONTROL, UART0_DATA, UART1_DATA,
    U2X0, U2X1, UBRR0, UBRR1,
    \* hardware: the registers the latest run of each receive handler read, in
    \* the order it read them (reading the data register clears the
    \* receive-complete flag)
    rx0_reads, rx1_reads,
    \* keypad (mm74c923.c): the port registers behind mm74c923_DDR and
    \* mm74c923_PORT (the set of pins that are 1), the remembered snapshots,
    \* the cursor and the line accumulator
    mm74c923_DDR, mm74c923_PORT, mm74c923_getchmem, mm74c923_getch_oneshotmem,
    mm74c923_i, MM74C923_string,
    \* the struct returned by UARTenable / UART1enable
    uart, uart1,
    \* foreground call in progress (interleaving specification)
    pc, loc,
    \* test driver: channel or buffer under test, phase of the scenario, the
    \* inputs applied so far and the results observed so far
    ch, phase, given, taken

prog0 == <<UART_TxBuf, UART_RxBuf, UART_TxHead, UART_TxTail, UART_RxHead,
           UART_RxTail, UART_LastRxError>>
prog1 == <<UART1_TxBuf, UART1_RxBuf, UART1_TxHead, UART1_TxTail, UART1_RxHead,
           UART1_RxTail, UART1_LastRxError>>
tx0 == <<UART_TxBuf, UART_TxHead, UART_TxTail>>
rx0 == <<UART_RxBuf, UART_RxHead, UART_RxTail, UART_LastRxError>>
tx1 == <<UART1_TxBuf, UART1_TxHead, UART1_TxTail>>
rx1 == <<UART1_RxBuf, UART1_RxHead, UART1_RxTail, UART1_LastRxError>>
hw0 == <<UART0_CONTROL, UART0_DATA>>
hw1 == <<UART1_CONTROL, UART1_DATA>>
baud == <<U2X0, U2X1, UBRR0, UBRR1>>
objs == <<uart, uart1>>
regreads == <<rx0_reads, rx1_reads>>
keypad == <<mm74c923_DDR, mm74c923_PORT, mm74c923_getchmem,
            mm74c923_getch_oneshotmem, mm74c923_i, MM74C923_string>>
fg == <<pc, loc>>
driver == <<ch, phase, given, taken>>
vars == <<prog0, prog1, SREG_I, hw0, hw1, baud, objs, regreads, fg, driver>>

\* Number of elements of the keypad line accumulator MM74C923_string.
MM74C923_STR_SIZE == 5

\* struct UART / struct UART1 (declared in uart.h): the recorded
\* configuration and the accumulator of uart_read / uart1_read, a cursor
\* index into the character array msg.  The largest cursor uart1_read
\* allows is UART_RX_BUFFER_MASK, the last element of msg.
UART_MSG_SIZE == UART_RX_BUFFER_MASK + 1
NoObj == [ubrr |-> 0, FDbits |-> 0, Stopbits |-> 0, Parity |-> 0,
          index |-> 0, msg |-> [i \in 0..(UART_MSG_SIZE - 1) |-> 0]]
\* The locals of the foreground call in progress (none: all zero).
NoLoc == [data |-> 0, push |-> 0, pop |-> 0, tmphead |-> 0, ctl |-> {},
          arg |-> NoObj, uart |-> NoObj, tSREG |-> FALSE, head |-> 0, tail |-> 0]

\* Static storage is zero-initialised; the registers hold their reset values.
\* The application may or may not have enabled interrupts before it opens a
\* channel.
ProgInit ==
    /\ UART_TxBuf = [i \in TxIdx |-> 0]
    /\ UART_RxBuf = [i \in RxIdx |-> 0]
    /\ UART_TxHead = 0 /\ UART_TxTail = 0
    /\ UART_RxHead = 0 /\ UART_RxTail = 0
    /\ UART_LastRxError = 0
    /\ UART1_TxBuf = [i \in TxIdx |-> 0]
    /\ UART1_RxBuf = [i \in RxIdx |-> 0]
    /\ UART1_TxHead = 0 /\ UART1_TxTail = 0
    /\ UART1_RxHead = 0 /\ UART1_RxTail = 0
    /\ UART1_LastRxError = 0
    /\ SREG_I \in BOOLEAN
    /\ UART0_CONTROL = {} /\ UART1_CONTROL = {}
    /\ UART0_DATA = <<>> /\ UART1_DATA = <<>>
    /\ U2X0 = FALSE /\ U2X1 = FALSE
    /\ UBRR0 = 0 /\ UBRR1 = 0
    /\ uart = NoObj /\ uart1 = NoObj
    /\ rx0_reads = <<>> /\ rx1_reads = <<>>
    /\ mm74c923_DDR = {} /\ mm74c923_PORT = {}
    /\ mm74c923_getchmem = {} /\ mm74c923_getch_oneshotmem = {}
    /\ mm74c923_i = 0
    /\ MM74C923_string = [k \in 0..(MM74C923_STR_SIZE - 1) |-> 0]
    /\ pc = "idle" /\ loc = NoLoc

(***************************************************************************)
(* Ring-buffer primitives of channel 0: the values each call computes      *)
(***************************************************************************)
\* Fault variant of uart0_txpush: the new head is not reduced to the ring.
uart0_txpush_no_mask(data) ==
    LET push == UART_TxHead + 1 IN
    IF UART_TxTail # push
    THEN [TxBuf |-> [UART_TxBuf EXCEPT ![UART_TxHead] = data],
          TxHead |-> push, ret |-> 1]
    ELSE [TxBuf |-> [UART_TxBuf EXCEPT ![push] = 0],
          TxHead |-> UART_TxHead, ret |-> 0]

\* Fault variant of uart0_txpush: the full test never triggers.
uart0_txpush_never_full(data) ==
    [TxBuf |-> [UART_TxBuf EXCEPT ![UART_TxHead] = data],
     TxHead |-> BitAnd(UART_TxHead + 1, UART_TX_BUFFER_MASK), ret |-> 1]

uart0_txpush(data) ==
    LET push == BitAnd(UART_TxHead + 1, UART_TX_BUFFER_MASK) IN
    IF UART_TxTail # push
    THEN [TxBuf |-> [UART_TxBuf EXCEPT ![UART_TxHead] = data],
          TxHead |-> push, ret |-> 1]
    ELSE [TxBuf |-> [UART_TxBuf EXCEPT ![push] = 0],
          TxHead |-> UART_TxHead, ret |-> 0]

\* Fault variant of uart0_txpop: the byte is read after the index advanced.
uart0_txpop_read_after_advance ==
    LET pop == BitAnd(UART_TxTail + 1, UART_TX_BUFFER_MASK) IN
    IF UART_TxTail # UART_TxHead
    THEN [data |-> UART_TxBuf[pop], TxTail |-> pop]
    ELSE [data |-> 0, TxTail |-> UART_TxTail]

uart0_txpop ==
    LET pop == BitAnd(UART_TxTail + 1, UART_TX_BUFFER_MASK) IN
    IF UART_TxTail # UART_TxHead
    THEN [data |-> UART_TxBuf[UART_TxTail], TxTail |-> pop]
    ELSE [data |-> 0, TxTail |-> UART_TxTail]

uart0_rxpush(data) ==
    LET push == BitAnd(UART_RxHead + 1, UART_RX_BUFFER_MASK) IN
    IF UART_RxTail # push
    THEN [RxBuf |-> [UART_RxBuf EXCEPT ![UART_RxHead] = data],
          RxHead |-> push, ret |-> 1]
    ELSE [RxBuf |-> [UART_RxBuf EXCEPT ![push] = 0],
          RxHead |-> UART_RxHead, ret |-> 0]

uart0_rxpop ==
    LET pop == BitAnd(UART_RxTail + 1, UART_RX_BUFFER_MASK) IN
    IF UART_RxTail # UART_RxHead
    THEN [data |-> UART_RxBuf[UART_RxTail], RxTail |-> pop]
    ELSE [data |-> 0, RxTail |-> UART_RxTail]

(***************************************************************************)
(* Channel 0: foreground functions                                         *)
(***************************************************************************)
\* What uart_getc returns and where it leaves UART_RxTail.
uart_getc_result ==
    LET tmptail == BitAnd(UART_RxTail + 1, UART_RX_BUFFER_MASK) IN
    IF tmptail # UART_RxHead
    THEN [ret |-> U16(UART_LastRxError * 256 + UART_RxBuf[UART_RxTail]),
          RxTail |-> tmptail]
    ELSE [ret |-> UART_NO_DATA, RxTail |-> UART_RxTail]

uart_getc ==
    /\ pc = "idle"
    /\ UART_RxTail' = uart_getc_result.RxTail
    /\ UNCHANGED <<tx0, UART_RxBuf, UART_RxHead, UART_LastRxError, prog1, SREG_I,
                   hw0, hw1, baud, objs,
                   regreads, keypad, fg>>

\* Fault variant of uart_putc: the byte is queued but the interrupt is left
\* as it was.
uart_putc_leaves_udrie(data) ==
    /\ pc = "idle"
    /\ LET r == uart0_txpush(data) IN
        /\ UART_TxBuf' = r.TxBuf
        /\ UART_TxHead' = r.TxHead
    /\ UNCHANGED <<UART_TxTail, rx0, prog1, SREG_I, hw0, hw1, baud, objs,
                   regreads, keypad, fg>>

uart_putc(data) ==
    /\ pc = "idle"
    /\ LET r == uart0_txpush(data) IN
        /\ UART_TxBuf' = r.TxBuf
        /\ UART_TxHead' = r.TxHead
        /\ UART0_CONTROL' = IF r.ret # 0 THEN UART0_CONTROL \cup {"UDRIE"}
                            ELSE UART0_CONTROL
    /\ UNCHANGED <<UART_TxTail, rx0, prog1, SREG_I, UART0_DATA, hw1, baud, objs,
                   regreads, keypad, fg>>

\* A direct call of the pop primitive from the foreground.
call_uart0_rxpop ==
    /\ pc = "idle"
    /\ UART_RxTail' = uart0_rxpop.RxTail
    /\ UNCHANGED <<tx0, UART_RxBuf, UART_RxHead, UART_LastRxError, prog1, SREG_I,
                   hw0, hw1, baud, objs,
                   regreads, keypad, fg>>

uart_available ==
    (UART_RX_BUFFER_MASK + UART_RxHead - UART_RxTail) % UART_RX_BUFFER_MASK

\* A call of uart_available: it computes its result and changes nothing.
call_uart_available ==
    /\ pc = "idle"
    /\ uart_available \in Int
    /\ UNCHANGED <<prog0, prog1, SREG_I, hw0, hw1, baud, objs,
                   regreads, keypad, fg>>

uart_flush ==
    /\ pc = "idle"
    /\ UART_RxHead' = UART_RxTail
    /\ UNCHANGED <<tx0, UART_RxBuf, UART_RxTail, UART_LastRxError, prog1, SREG_I,
                   hw0, hw1, baud, objs,
                   regreads, keypad, fg>>

(***************************************************************************)
(* Channel 0: uart_putc (with uart0_txpush) and uart0_rxpop one statement  *)
(* at a time.  pc names the statement about to run and loc holds the       *)
(* locals of the call; a handler can run between any two of these steps.   *)
(***************************************************************************)
rest == <<SREG_I, hw1, baud, objs, regreads, keypad>>

\* uart_putc(data) is entered; uart0_txpush computes push from UART_TxHead.
uart_putc_call(data) ==
    /\ pc = "idle"
    /\ loc' = [NoLoc EXCEPT !.data = data,
                            !.push = BitAnd(UART_TxHead + 1, UART_TX_BUFFER_MASK)]
    /\ pc' = "txpush_test"
    /\ UNCHANGED <<prog0, prog1, hw0, rest>>

\* if(UART_TxTail != push)
uart0_txpush_test ==
    /\ pc = "txpush_test"
    /\ pc' = IF UART_TxTail # loc.push THEN "txpush_store" ELSE "txpush_full"
    /\ UNCHANGED <<loc, prog0, prog1, hw0, rest>>

\* UART_TxBuf[UART_TxHead] = data
uart0_txpush_store ==
    /\ pc = "txpush_store"
    /\ UART_TxBuf' = [UART_TxBuf EXCEPT ![UART_TxHead] = loc.data]
    /\ pc' = "txpush_advance"
    /\ UNCHANGED <<loc, UART_TxHead, UART_TxTail, rx0, prog1, hw0, rest>>

\* UART_TxHead = push; ret = 1
uart0_txpush_advance ==
    /\ pc = "txpush_advance"
    /\ UART_TxHead' = loc.push
    /\ pc' = "putc_enable"
    /\ UNCHANGED <<loc, UART_TxBuf, UART_TxTail, rx0, prog1, hw0, rest>>

\* UART_TxBuf[push] = '\0'; ret = 0, and uart_putc returns.
uart0_txpush_full ==
    /\ pc = "txpush_full"
    /\ UART_TxBuf' = [UART_TxBuf EXCEPT ![loc.push] = 0]
    /\ pc' = "idle" /\ loc' = NoLoc
    /\ UNCHANGED <<UART_TxHead, UART_TxTail, rx0, prog1, hw0, rest>>

\* UART0_CONTROL |= _BV(UART0_UDRIE), and uart_putc returns.
uart_putc_enable ==
    /\ pc = "putc_enable"
    /\ UART0_CONTROL' = UART0_CONTROL \cup {"UDRIE"}
    /\ pc' = "idle" /\ loc' = NoLoc
    /\ UNCHANGED <<prog0, prog1, UART0_DATA, rest>>

\* uart0_rxpop is entered and computes pop from UART_RxTail.
uart0_rxpop_call ==
    /\ pc = "idle"
    /\ loc' = [NoLoc EXCEPT !.pop = BitAnd(UART_RxTail + 1, UART_RX_BUFFER_MASK)]
    /\ pc' = "rxpop_test"
    /\ UNCHANGED <<prog0, prog1, hw0, rest>>

\* if(UART_RxTail != UART_RxHead)
uart0_rxpop_test ==
    /\ pc = "rxpop_test"
    /\ pc' = IF UART_RxTail # UART_RxHead THEN "rxpop_read" ELSE "rxpop_empty"
    /\ UNCHANGED <<loc, prog0, prog1, hw0, rest>>

\* Fault variant of uart0_rxpop_read: the slot after the tail is read.
uart0_rxpop_read_at_pop ==
    /\ pc = "rxpop_read"
    /\ loc' = [loc EXCEPT !.data = UART_RxBuf[loc.pop]]
    /\ pc' = "rxpop_advance"
    /\ UNCHANGED <<prog0, prog1, hw0, rest>>

\* data = UART_RxBuf[UART_RxTail]
uart0_rxpop_read ==
    /\ pc = "rxpop_read"
    /\ loc' = [loc EXCEPT !.data = UART_RxBuf[UART_RxTail]]
    /\ pc' = "rxpop_advance"
    /\ UNCHANGED <<prog0, prog1, hw0, rest>>

\* UART_RxTail = pop
uart0_rxpop_advance ==
    /\ pc = "rxpop_advance"
    /\ UART_RxTail' = loc.pop
    /\ pc' = "rxpop_return"
    /\ UNCHANGED <<loc, tx0, UART_RxBuf, UART_RxHead, UART_LastRxError, prog1, hw0,
                   rest>>

\* data = '\0'
uart0_rxpop_empty ==
    /\ pc = "rxpop_empty"
    /\ loc' = [loc EXCEPT !.data = 0]
    /\ pc' = "rxpop_return"
    /\ UNCHANGED <<prog0, prog1, hw0, rest>>

\* return data
uart0_rxpop_return ==
    /\ pc = "rxpop_return"
    /\ pc' = "idle" /\ loc' = NoLoc
    /\ UNCHANGED <<prog0, prog1, hw0, rest>>

(***************************************************************************)
(* Channel 0: interrupt handlers.  A handler runs when the global flag and *)
(* its enable bit are set; usr and data are the status and data registers  *)
(* at the time the receive handler runs.                                   *)
(***************************************************************************)
\* Fault variant of the handler: when the buffer is full it makes room by
\* discarding the oldest byte, moving the tail index from the handler.
UART0_RECEIVE_INTERRUPT_drops_oldest(usr, data) ==
    /\ SREG_I /\ "RXCIE" \in UART0_CONTROL
    /\ LET lastRxError == BitAnd(usr, FE + DOR)
           push == BitAnd(UART_RxHead + 1, UART_RX_BUFFER_MASK)
       IN /\ UART_RxBuf' = [UART_RxBuf EXCEPT
                              ![UART_RxHead] = IF lastRxError # 0 THEN ErrChar
                                               ELSE data]
          /\ UART_RxHead' = push
          /\ UART_RxTail' = IF UART_RxTail = push
                            THEN BitAnd(push + 1, UART_RX_BUFFER_MASK)
                            ELSE UART_RxTail
          /\ rx0_reads' = IF lastRxError # 0 THEN <<"STATUS", "CONTROL">>
                          ELSE <<"STATUS", "CONTROL", "DATA">>
    /\ UNCHANGED <<tx0, UART_LastRxError, prog1, SREG_I, hw0, hw1,
                   baud, objs, rx1_reads, keypad, fg>>

UART0_RECEIVE_INTERRUPT(usr, data) ==
    /\ SREG_I /\ "RXCIE" \in UART0_CONTROL
    /\ LET lastRxError == BitAnd(usr, FE + DOR)
           r == IF lastRxError # 0 THEN uart0_rxpush(ErrChar)
                ELSE uart0_rxpush(data)
       IN /\ UART_RxBuf' = r.RxBuf
          /\ UART_RxHead' = r.RxHead
          \* usr = UART0_STATUS; bit9 = UART0_CONTROL; UART0_DATA is read only
          \* as the argument of the push on the path without error
          /\ rx0_reads' = IF lastRxError # 0 THEN <<"STATUS", "CONTROL">>
                          ELSE <<"STATUS", "CONTROL", "DATA">>
    /\ UNCHANGED <<tx0, UART_RxTail, UART_LastRxError, prog1, SREG_I, hw0, hw1,
                   baud, objs, rx1_reads, keypad, fg>>

UART0_TRANSMIT_INTERRUPT ==
    /\ SREG_I /\ "UDRIE" \in UART0_CONTROL
    /\ LET r == uart0_txpop IN
        /\ UART_TxTail' = r.TxTail
        /\ IF r.data # 0
           THEN /\ UART0_DATA' = Append(UART0_DATA, r.data)
                /\ UART0_CONTROL' = UART0_CONTROL
           ELSE /\ UART0_DATA' = UART0_DATA
                /\ UART0_CONTROL' = UART0_CONTROL \ {"UDRIE"}
    /\ UNCHANGED <<UART_TxBuf, UART_TxHead, rx0, prog1, SREG_I, hw1, baud, objs,
                   regreads, keypad, fg>>

(***************************************************************************)
(* Channel 1: foreground functions                                         *)
(***************************************************************************)
uart1_getc_result ==
    IF UART1_RxHead = UART1_RxTail
    THEN [ret |-> UART_NO_DATA, RxTail |-> UART1_RxTail]
    ELSE LET tmptail == BitAnd(UART1_RxTail + 1, UART_RX_BUFFER_MASK) IN
         [ret |-> U16(UART1_LastRxError * 256 + UART1_RxBuf[tmptail]),
          RxTail |-> tmptail]

uart1_getc ==
    /\ pc = "idle"
    /\ UART1_RxTail' = uart1_getc_result.RxTail
    /\ UNCHANGED <<prog0, tx1, UART1_RxBuf, UART1_RxHead, UART1_LastRxError, SREG_I,
                   hw0, hw1, baud, objs,
                   regreads, keypad, fg>>

\* uart1_putc spins while the buffer is full: as one atomic step the call is
\* possible only once there is room.
uart1_putc(data) ==
    /\ pc = "idle"
    /\ LET tmphead == BitAnd(UART1_TxHead + 1, UART_TX_BUFFER_MASK) IN
        /\ tmphead # UART1_TxTail
        /\ UART1_TxBuf' = [UART1_TxBuf EXCEPT ![tmphead] = data]
        /\ UART1_TxHead' = tmphead
    /\ UART1_CONTROL' = UART1_CONTROL \cup {"UDRIE"}
    /\ UNCHANGED <<prog0, UART1_TxTail, rx1, SREG_I, hw0, UART1_DATA, baud, objs,
                   regreads, keypad, fg>>

uart1_available ==
    (UART_RX_BUFFER_MASK + UART1_RxHead - UART1_RxTail) % UART_RX_BUFFER_MASK

call_uart1_available ==
    /\ pc = "idle"
    /\ uart1_available \in Int
    /\ UNCHANGED <<prog0, prog1, SREG_I, hw0, hw1, baud, objs,
                   regreads, keypad, fg>>

uart1_flush ==
    /\ pc = "idle"
    /\ UART1_RxHead' = UART1_RxTail
    /\ UNCHANGED <<prog0, tx1, UART1_RxBuf, UART1_RxTail, UART1_LastRxError, SREG_I,
                   hw0, hw1, baud, objs,
                   regreads, keypad, fg>>

(***************************************************************************)
(* Channel 1: uart1_putc one statement at a time.  The control register    *)
(* is outside the range of the single-instruction bit set, so |= is a load *)
(* followed by a store.                                                    *)
(***************************************************************************)
rest1 == <<SREG_I, hw0, baud, objs, regreads, keypad>>

\* uart1_putc(data) is entered and computes tmphead from UART1_TxHead.
uart1_putc_call(data) ==
    /\ pc = "idle"
    /\ loc' = [NoLoc EXCEPT !.data = data,
                            !.tmphead = BitAnd(UART1_TxHead + 1, UART_TX_BUFFER_MASK)]
    /\ pc' = "putc1_wait"
    /\ UNCHANGED <<prog0, prog1, hw1, rest1>>

\* while ( tmphead == UART1_TxTail ) ;   the loop is left once there is room.
uart1_putc_wait ==
    /\ pc = "putc1_wait"
    /\ loc.tmphead # UART1_TxTail
    /\ pc' = "putc1_store"
    /\ UNCHANGED <<loc, prog0, prog1, hw1, rest1>>

\* Fault variant of uart1_putc_store: the byte is stored at the old head.
uart1_putc_store_at_head ==
    /\ pc = "putc1_store"
    /\ UART1_TxBuf' = [UART1_TxBuf EXCEPT ![UART1_TxHead] = loc.data]
    /\ pc' = "putc1_advance"
    /\ UNCHANGED <<loc, prog0, UART1_TxHead, UART1_TxTail, rx1, hw1, rest1>>

\* UART1_TxBuf[tmphead] = data
uart1_putc_store ==
    /\ pc = "putc1_store"
    /\ UART1_TxBuf' = [UART1_TxBuf EXCEPT ![loc.tmphead] = loc.data]
    /\ pc' = "putc1_advance"
    /\ UNCHANGED <<loc, prog0, UART1_TxHead, UART1_TxTail, rx1, hw1, rest1>>

\* UART1_TxHead = tmphead
uart1_putc_advance ==
    /\ pc = "putc1_advance"
    /\ UART1_TxHead' = loc.tmphead
    /\ pc' = "putc1_load"
    /\ UNCHANGED <<loc, prog0, UART1_TxBuf, UART1_TxTail, rx1, hw1, rest1>>

\* UART1_CONTROL |= _BV(UART1_UDRIE): the register is loaded ...
uart1_putc_load ==
    /\ pc = "putc1_load"
    /\ loc' = [loc EXCEPT !.ctl = UART1_CONTROL]
    /\ pc' = "putc1_enable"
    /\ UNCHANGED <<prog0, prog1, hw1, rest1>>

\* Fault variant of uart1_putc_enable: the call returns without the store.
uart1_putc_no_enable ==
    /\ pc = "putc1_enable"
    /\ pc' = "idle" /\ loc' = NoLoc
    /\ UNCHANGED <<prog0, prog1, hw1, rest1>>

\* ... and stored back with the bit set; uart1_putc returns.
uart1_putc_enable ==
    /\ pc = "putc1_enable"
    /\ UART1_CONTROL' = loc.ctl \cup {"UDRIE"}
    /\ pc' = "idle" /\ loc' = NoLoc
    /\ UNCHANGED <<prog0, prog1, UART1_DATA, rest1>>

(***************************************************************************)
(* Channel 1: interrupt handlers                                           *)
(***************************************************************************)
\* The handler stores the byte in UART_RxBuf, the storage of channel 0.
UART1_RECEIVE_INTERRUPT(usr, data) ==
    /\ SREG_I /\ "RXCIE" \in UART1_CONTROL
    /\ LET err == BitAnd(usr, FE + DOR)
           tmphead == BitAnd(UART1_RxHead + 1, UART_RX_BUFFER_MASK)
       IN IF tmphead = UART1_RxTail
          THEN /\ UART1_LastRxError' = UART_BUFFER_OVERFLOW \div 256
               /\ UNCHANGED <<UART1_RxHead, UART_RxBuf>>
          ELSE /\ UART1_RxHead' = tmphead
               /\ UART_RxBuf' = [UART_RxBuf EXCEPT
                                   ![tmphead] = IF err # 0 THEN ErrChar ELSE data]
               /\ UART1_LastRxError' = err
    \* usr = UART1_STATUS; bit9 = UART1_CONTROL; data = UART1_DATA
    /\ rx1_reads' = <<"STATUS", "CONTROL", "DATA">>
    /\ UNCHANGED <<tx0, UART_RxHead, UART_RxTail, UART_LastRxError, tx1,
                   UART1_RxBuf, UART1_RxTail, SREG_I, hw0, hw1, baud, objs,
                   rx0_reads, keypad, fg>>

UART1_TRANSMIT_INTERRUPT ==
    /\ SREG_I /\ "UDRIE" \in UART1_CONTROL
    /\ IF UART1_TxHead # UART1_TxTail
       THEN LET tmptail == BitAnd(UART1_TxTail + 1, UART_TX_BUFFER_MASK) IN
            /\ UART1_TxTail' = tmptail
            /\ UART1_DATA' = Append(UART1_DATA, UART1_TxBuf[tmptail])
            /\ UART1_CONTROL' = UART1_CONTROL
       ELSE /\ UART1_CONTROL' = UART1_CONTROL \ {"UDRIE"}
            /\ UNCHANGED <<UART1_TxTail, UART1_DATA>>
    /\ UNCHANGED <<prog0, UART1_TxBuf, UART1_TxHead, rx1, SREG_I, hw0, baud, objs,
                   regreads, keypad, fg>>

(***************************************************************************)
(* Constructors.  The register writes happen with interrupts disabled, so  *)
(* the call is one atomic step.  The frame-format register itself is not   *)
(* modelled, only the configuration recorded in the returned struct.       *)
(***************************************************************************)
\* Fault variant of FDbitsOf: the argument is recorded whatever it is.
FDbitsOf_as_given(FDbits) == FDbits

FDbitsOf(FDbits) ==
    CASE FDbits = 9 -> 9
      [] FDbits = 8 -> 8
      [] FDbits = 7 -> 7
      [] FDbits = 6 -> 6
      [] FDbits = 5 -> 5
      [] OTHER -> 8
StopbitsOf(Stopbits) ==
    CASE Stopbits = 1 -> 1
      [] Stopbits = 2 -> 2
      [] OTHER -> 1
ParityOf(Parity) ==
    CASE Parity = 0 -> 0
      [] Parity = 2 -> 2
      [] Parity = 3 -> 3
      [] OTHER -> 0

\* The divisor written to UBRRnH / UBRRnL.
BaudRegs(baudrate) ==
    LET b == IF BitAnd(baudrate, 32768) # 0 THEN BitAnd(baudrate, 32767)
             ELSE baudrate
    IN [H |-> U8(b \div 256), L |-> U8(b)]

\* Fault variant of UARTenable: the control register is or-ed with the
\* enable bits instead of assigned.
UARTenable_ors_control(baudrate, FDbits, Stopbits, Parity) ==
    /\ pc = "idle"
    /\ UART_TxHead' = 0 /\ UART_TxTail' = 0
    /\ UART_RxHead' = 0 /\ UART_RxTail' = 0
    /\ uart' = [NoObj EXCEPT !.ubrr = baudrate, !.FDbits = FDbitsOf(FDbits),
                             !.Stopbits = StopbitsOf(Stopbits),
                             !.Parity = ParityOf(Parity)]
    /\ U2X0' = IF BitAnd(baudrate, 32768) # 0 THEN TRUE ELSE U2X0
    /\ UBRR0' = BaudRegs(baudrate)
    /\ UART0_CONTROL' = UART0_CONTROL \cup {"RXCIE", "RXEN", "TXEN"}
                          \cup (IF FDbits = 9 THEN {"UCSZ2"} ELSE {})
    /\ SREG_I' = TRUE
    /\ UNCHANGED <<UART_TxBuf, UART_RxBuf, UART_LastRxError, prog1, UART0_DATA, hw1,
                   U2X1, UBRR1, uart1, regreads, keypad, fg>>

UARTenable(baudrate, FDbits, Stopbits, Parity) ==
    /\ pc = "idle"
    /\ UART_TxHead' = 0 /\ UART_TxTail' = 0
    /\ UART_RxHead' = 0 /\ UART_RxTail' = 0
    /\ uart' = [NoObj EXCEPT !.ubrr = baudrate, !.FDbits = FDbitsOf(FDbits),
                             !.Stopbits = StopbitsOf(Stopbits),
                             !.Parity = ParityOf(Parity)]
    /\ U2X0' = IF BitAnd(baudrate, 32768) # 0 THEN TRUE ELSE U2X0
    /\ UBRR0' = BaudRegs(baudrate)
    /\ UART0_CONTROL' = {"RXCIE", "RXEN", "TXEN"}
                          \cup (IF FDbits = 9 THEN {"UCSZ2"} ELSE {})
    /\ SREG_I' = TRUE
    /\ UNCHANGED <<UART_TxBuf, UART_RxBuf, UART_LastRxError, prog1, UART0_DATA, hw1,
                   U2X1, UBRR1, uart1, regreads, keypad, fg>>

UART1enable(baudrate, FDbits, Stopbits, Parity) ==
    /\ pc = "idle"
    /\ UART1_TxHead' = 0 /\ UART1_TxTail' = 0
    /\ UART1_RxHead' = 0 /\ UART1_RxTail' = 0
    /\ uart1' = [NoObj EXCEPT !.ubrr = baudrate, !.FDbits = FDbitsOf(FDbits),
                              !.Stopbits = StopbitsOf(Stopbits),
                              !.Parity = ParityOf(Parity)]
    /\ U2X1' = IF BitAnd(baudrate, 32768) # 0 THEN TRUE ELSE U2X1
    /\ UBRR1' = BaudRegs(baudrate)
    /\ UART1_CONTROL' = {"RXCIE", "RXEN", "TXEN"}
                          \cup (IF FDbits = 9 THEN {"UCSZ2"} ELSE {})
    /\ SREG_I' = TRUE
    /\ UNCHANGED <<prog0, UART1_TxBuf, UART1_RxBuf, UART1_LastRxError, hw0,
                   UART1_DATA, U2X0, UBRR0, uart, regreads, keypad, fg>>

(***************************************************************************)
(* Inputs of the test drivers                                              *)
(***************************************************************************)
\* UART_BAUD_SELECT(9600, 16 MHz); 8 data bits, 1 stop bit, no parity.
Baud9600 == 103
\* Receptions: a clean NUL, a clean 'A' (0x41), an 'A' with a framing error.
RxInputs == {[usr |-> 0, data |-> 0], [usr |-> 0, data |-> 65],
             [usr |-> FE, data |-> 65]}
Clean(in) == BitAnd(in.usr, FE + DOR) = 0

Open(c) ==
    \/ c = 0 /\ UARTenable(Baud9600, 8, 1, 0)
    \/ c = 1 /\ UART1enable(Baud9600, 8, 1, 0)

(***************************************************************************)
(* SpecRx: open a channel, let the receive handler fire up to MaxRcv times,*)
(* then read up to MaxReads times with no further reception.               *)
(***************************************************************************)
MaxRcv == 8
MaxReads == 8

InitRx ==
    /\ ProgInit
    /\ ch \in {0, 1} /\ phase = "open" /\ given = <<>> /\ taken = <<>>

RxOpen ==
    /\ phase = "open" /\ Open(ch)
    /\ phase' = "fill" /\ UNCHANGED <<ch, given, taken>>

RxReceive ==
    /\ phase = "fill" /\ Len(given) < MaxRcv
    /\ \E in \in RxInputs :
        /\ \/ ch = 0 /\ UART0_RECEIVE_INTERRUPT(in.usr, in.data)
           \/ ch = 1 /\ UART1_RECEIVE_INTERRUPT(in.usr, in.data)
        /\ given' = Append(given, in)
    /\ UNCHANGED <<ch, phase, taken>>

RxRead ==
    /\ phase \in {"fill", "drain"} /\ Len(taken) < MaxReads
    /\ \/ ch = 0 /\ uart_getc /\ taken' = Append(taken, uart_getc_result.ret)
       \/ ch = 1 /\ uart1_getc /\ taken' = Append(taken, uart1_getc_result.ret)
    /\ phase' = "drain" /\ UNCHANGED <<ch, given>>

NextRx == RxOpen \/ RxReceive \/ RxRead

SpecRx == InitRx /\ [][NextRx]_vars

(***************************************************************************)
(* Claims checked under SpecRx                                             *)
(***************************************************************************)
AllClean(log) == \A i \in 1..Len(log) : Clean(log[i])

\* C1: after open, k clean receptions b1..bk (1 <= k <= N-1) with no read in
\* between are returned by the next k reads, in order and with error flag
\* 'none' (so the result is the byte itself), and read k+1 returns NoData.
C1_ReadsReturnReceived ==
    (phase = "drain" /\ Len(given) \in 1..(UART_RX_BUFFER_SIZE - 1) /\ AllClean(given))
        => \A j \in 1..Len(taken) :
              /\ j <= Len(given) => taken[j] = given[j].data
              /\ j = Len(given) + 1 => taken[j] = UART_NO_DATA

\* C2: a read from an empty receive buffer returns NoData and leaves the
\* indices and the storage of that buffer as they were.
C2_EmptyReadIsNoData ==
    [][ /\ (uart_getc /\ UART_RxHead = UART_RxTail)
            => /\ uart_getc_result.ret = UART_NO_DATA
               /\ UNCHANGED <<UART_RxHead, UART_RxTail, UART_RxBuf>>
        /\ (uart1_getc /\ UART1_RxHead = UART1_RxTail)
            => /\ uart1_getc_result.ret = UART_NO_DATA
               /\ UNCHANGED <<UART1_RxHead, UART1_RxTail, UART1_RxBuf>> ]_vars

\* The slots of channel 0's receive storage that hold queued bytes.
RxQueued0 ==
    {i \in RxIdx : BitAnd(i + UART_RX_BUFFER_SIZE - UART_RxTail, UART_RX_BUFFER_MASK)
                     < BitAnd(UART_RxHead + UART_RX_BUFFER_SIZE - UART_RxTail,
                              UART_RX_BUFFER_MASK)}
RxFull0 == BitAnd(UART_RxHead + 1, UART_RX_BUFFER_MASK) = UART_RxTail
RxFull1 == BitAnd(UART1_RxHead + 1, UART_RX_BUFFER_MASK) = UART1_RxTail

\* C5: a reception while the receive buffer is full is dropped: the indices
\* and every queued byte stay as they were.
C5_OverflowDropsByte ==
    [][ \A in \in RxInputs :
        /\ (RxFull0 /\ UART0_RECEIVE_INTERRUPT(in.usr, in.data))
            => /\ UNCHANGED <<UART_RxHead, UART_RxTail>>
               /\ \A i \in RxQueued0 : UART_RxBuf'[i] = UART_RxBuf[i]
        /\ (RxFull1 /\ UART1_RECEIVE_INTERRUPT(in.usr, in.data))
            => UNCHANGED <<UART1_RxHead, UART1_RxTail, UART1_RxBuf, UART_RxBuf>> ]_vars

\* What the receive handler of the channel queues for a reception.
StoredFor(in) == IF Clean(in) THEN in.data ELSE ErrChar

\* C14: every run of a receive-complete handler (with room in the buffer)
\* sets the channel's error latch to the error bits of the status it read,
\* whatever the latch held before.
C14_ErrorLatchOverwritten ==
    [][ \A in \in RxInputs :
        /\ (~RxFull0 /\ UART0_RECEIVE_INTERRUPT(in.usr, in.data))
            => UART_LastRxError' = BitAnd(in.usr, FE + DOR)
        /\ (~RxFull1 /\ UART1_RECEIVE_INTERRUPT(in.usr, in.data))
            => UART1_LastRxError' = BitAnd(in.usr, FE + DOR) ]_vars

\* C15: a reception with a framing or overrun status, with room in the
\* channel's receive buffer, appends exactly one byte to that channel's
\* queue, and the byte at that queue position (the one a read of it
\* returns) is 'X'.
C15_ErrorQueuesSentinel ==
    [][ \A in \in RxInputs : ~Clean(in) =>
        /\ (~RxFull0 /\ UART0_RECEIVE_INTERRUPT(in.usr, in.data))
            => /\ UART_RxHead' = BitAnd(UART_RxHead + 1, UART_RX_BUFFER_MASK)
               /\ UART_RxTail' = UART_RxTail
               /\ UART_RxBuf'[UART_RxHead] = ErrChar
        /\ (~RxFull1 /\ UART1_RECEIVE_INTERRUPT(in.usr, in.data))
            => /\ UART1_RxHead' = BitAnd(UART1_RxHead + 1, UART_RX_BUFFER_MASK)
               /\ UART1_RxTail' = UART1_RxTail
               /\ UART1_RxBuf'[UART1_RxHead'] = ErrChar ]_vars

\* C16: for every reachable pair of receive indices, available() returns
\* the number of queued bytes, (RxHead - RxTail) mod N.
C16_AvailableIsCount ==
    /\ uart_available
         = BitAnd(UART_RxHead + UART_RX_BUFFER_SIZE - UART_RxTail, UART_RX_BUFFER_MASK)
    /\ uart1_available
         = BitAnd(UART1_RxHead + UART_RX_BUFFER_SIZE - UART1_RxTail, UART_RX_BUFFER_MASK)

(***************************************************************************)
(* SpecTx: open a channel, write up to MaxPut bytes, then let the          *)
(* transmit-ready handler fire up to MaxFire times with no further write.  *)
(* given is the sequence of bytes passed to write; taken has one entry per *)
(* firing: the number of bytes the data register has received after it.    *)
(***************************************************************************)
\* NUL, 'H', 'i'
TxBytes == {0, 72, 105}
MaxPut == 8
MaxFire == 9

InitTx ==
    /\ ProgInit
    /\ ch \in {0, 1} /\ phase = "open" /\ given = <<>> /\ taken = <<>>

TxOpen ==
    /\ phase = "open" /\ Open(ch)
    /\ phase' = "write" /\ UNCHANGED <<ch, given, taken>>

TxWrite ==
    /\ phase = "write" /\ Len(given) < MaxPut
    /\ \E d \in TxBytes :
        /\ \/ ch = 0 /\ uart_putc(d)
           \/ ch = 1 /\ uart1_putc(d)
        /\ given' = Append(given, d)
    /\ UNCHANGED <<ch, phase, taken>>

TxFire ==
    /\ phase \in {"write", "drain"} /\ Len(taken) < MaxFire
    /\ \/ ch = 0 /\ UART0_TRANSMIT_INTERRUPT /\ taken' = Append(taken, Len(UART0_DATA'))
       \/ ch = 1 /\ UART1_TRANSMIT_INTERRUPT /\ taken' = Append(taken, Len(UART1_DATA'))
    /\ phase' = "drain" /\ UNCHANGED <<ch, given>>

NextTx == TxOpen \/ TxWrite \/ TxFire

SpecTx == InitTx /\ [][NextTx]_vars

(***************************************************************************)
(* Claims checked under SpecTx                                             *)
(***************************************************************************)
\* C3: channel 0, from an empty idle transmit buffer: after write of b1..bk
\* (k <= N-1, any byte values) and firings of the transmit-ready handler
\* until its interrupt is disabled, the data register has received exactly
\* b1..bk, in order.
C3_TxRoundTrip ==
    (ch = 0 /\ phase = "drain" /\ Len(given) <= UART_TX_BUFFER_SIZE - 1
       /\ "UDRIE" \notin UART0_CONTROL)
        => UART0_DATA = given

\* The slots of channel 0's transmit storage that hold queued bytes.
TxQueued0 ==
    {i \in TxIdx : BitAnd(i + UART_TX_BUFFER_SIZE - UART_TxTail, UART_TX_BUFFER_MASK)
                     < BitAnd(UART_TxHead + UART_TX_BUFFER_SIZE - UART_TxTail,
                              UART_TX_BUFFER_MASK)}
TxFull0 == BitAnd(UART_TxHead + 1, UART_TX_BUFFER_MASK) = UART_TxTail

\* C4: a write on channel 0 while the transmit buffer is full reports
\* failure and changes neither index, nor a slot holding a queued byte, nor
\* the transmit-ready interrupt enable.
C4_FullWriteChangesNothing ==
    [][ \A d \in TxBytes :
        (TxFull0 /\ uart_putc(d))
            => /\ uart0_txpush(d).ret = 0
               /\ UNCHANGED <<UART_TxHead, UART_TxTail, UART0_CONTROL>>
               /\ \A i \in TxQueued0 : UART_TxBuf'[i] = UART_TxBuf[i] ]_vars

\* C8: a run of the transmit-ready handler with a non-empty buffer writes
\* the byte at the front of the queue to the data register, advances TxTail
\* by one and leaves the interrupt enabled; a run with an empty buffer
\* writes nothing and disables the interrupt.
C8_TxHandlerStep ==
    [][ /\ UART0_TRANSMIT_INTERRUPT =>
            IF UART_TxHead # UART_TxTail
            THEN /\ UART0_DATA' = Append(UART0_DATA, UART_TxBuf[UART_TxTail])
                 /\ UART_TxTail' = BitAnd(UART_TxTail + 1, UART_TX_BUFFER_MASK)
                 /\ "UDRIE" \in UART0_CONTROL'
            ELSE /\ UART0_DATA' = UART0_DATA
                 /\ "UDRIE" \notin UART0_CONTROL'
        /\ UART1_TRANSMIT_INTERRUPT =>
            IF UART1_TxHead # UART1_TxTail
            THEN /\ UART1_DATA' = Append(UART1_DATA,
                       UART1_TxBuf[BitAnd(UART1_TxTail + 1, UART_TX_BUFFER_MASK)])
                 /\ UART1_TxTail' = BitAnd(UART1_TxTail + 1, UART_TX_BUFFER_MASK)
                 /\ "UDRIE" \in UART1_CONTROL'
            ELSE /\ UART1_DATA' = UART1_DATA
                 /\ "UDRIE" \notin UART1_CONTROL' ]_vars

\* The channel under test: its data register stream, whether its transmit
\* buffer is empty, whether its transmit-ready interrupt is enabled.
WireOf(c) == IF c = 0 THEN UART0_DATA ELSE UART1_DATA
TxEmptyOf(c) == IF c = 0 THEN UART_TxHead = UART_TxTail ELSE UART1_TxHead = UART1_TxTail
UdrieOf(c) == IF c = 0 THEN "UDRIE" \in UART0_CONTROL ELSE "UDRIE" \in UART1_CONTROL

NoNul(seq) == \A i \in 1..Len(seq) : seq[i] # 0

RingBytes == {0, 65}
MaxPush == 8
MaxPop == 8

InitRing ==
    /\ ProgInit
    /\ ch \in {"tx", "rx"}
    /\ phase = [opened |-> FALSE, run |-> -1, failed |-> FALSE]
    /\ given = 0 /\ taken = 0

RingOpen ==
    /\ ~phase.opened /\ Open(0)
    /\ phase' = [phase EXCEPT !.opened = TRUE]
    /\ UNCHANGED <<ch, given, taken>>

\* The driver's bookkeeping for a push that returned ok, made when the
\* buffer was (not) empty.
Pushed(ok, wasEmpty) ==
    /\ given' = IF ok THEN given + 1 ELSE given
    /\ phase' = IF ~ok THEN [phase EXCEPT !.failed = TRUE]
                ELSE IF wasEmpty THEN [phase EXCEPT !.run = 1, !.failed = FALSE]
                ELSE IF phase.run >= 0 THEN [phase EXCEPT !.run = @ + 1]
                ELSE phase
    /\ UNCHANGED <<ch, taken>>

Popped(ok) ==
    /\ taken' = IF ok THEN taken + 1 ELSE taken
    /\ phase' = IF ok THEN [phase EXCEPT !.run = -1, !.failed = FALSE] ELSE phase
    /\ UNCHANGED <<ch, given>>

RingPush ==
    /\ phase.opened /\ given < MaxPush
    /\ \E d \in RingBytes :
        \/ /\ ch = "tx" /\ uart_putc(d)
           /\ Pushed(uart0_txpush(d).ret # 0, UART_TxHead = UART_TxTail)
        \/ /\ ch = "rx" /\ UART0_RECEIVE_INTERRUPT(0, d)
           /\ Pushed(uart0_rxpush(d).ret # 0, UART_RxHead = UART_RxTail)

RingPop ==
    /\ phase.opened /\ taken < MaxPop
    /\ \/ ch = "tx" /\ UART0_TRANSMIT_INTERRUPT /\ Popped(UART_TxTail' # UART_TxTail)
       \/ ch = "rx" /\ call_uart0_rxpop /\ Popped(UART_RxTail' # UART_RxTail)
       \/ ch = "rx" /\ uart_getc /\ Popped(UART_RxTail' # UART_RxTail)

NextRing == RingOpen \/ RingPush \/ RingPop

SpecRing == InitRing /\ [][NextRing]_vars

\* C7: successful pushes minus successful pops never exceeds N-1; from an
\* empty buffer the first N-1 consecutive pushes succeed (a push fails only
\* after N-1 successes) and the N-th fails (there is no N-th success).
C7_CapacityBound ==
    /\ given - taken <= UART_TX_BUFFER_SIZE - 1
    /\ phase.run <= UART_TX_BUFFER_SIZE - 1
    /\ (phase.failed /\ phase.run >= 0) => phase.run = UART_TX_BUFFER_SIZE - 1

C7_Witness ==
    /\ phase.failed /\ phase.run = UART_TX_BUFFER_SIZE - 1
    /\ given - taken = UART_TX_BUFFER_SIZE - 1

(***************************************************************************)
(* SpecIL: producer and consumer of one ring buffer of channel 0, with the *)
(* handler able to run between any two statements of the foreground call.  *)
(* ch = "tx": uart_putc (uart0_txpush) runs statement by statement and the *)
(* transmit-ready handler (uart0_txpop) preempts it; ch = "rx": uart0_rxpop*)
(* runs statement by statement and the receive handler (uart0_rxpush)      *)
(* preempts it.  given is the sequence of bytes passed to push, taken the  *)
(* sequence of bytes returned by the pops that removed a byte.             *)
(***************************************************************************)
IlBytes == {0, 65}
MaxIlPush == 8
\* the number of pushes the claim is about
IlPushes == 5

InitIL ==
    /\ ProgInit
    /\ ch \in {"tx", "rx"} /\ phase = "open" /\ given = <<>> /\ taken = <<>>

IlOpen ==
    /\ phase = "open" /\ Open(0)
    /\ phase' = "run" /\ UNCHANGED <<ch, given, taken>>

IlPush ==
    /\ phase = "run" /\ Len(given) < MaxIlPush
    /\ \E d \in IlBytes :
        /\ \/ ch = "tx" /\ uart_putc_call(d)
           \/ ch = "rx" /\ UART0_RECEIVE_INTERRUPT(0, d)
        /\ given' = Append(given, d)
    /\ UNCHANGED <<ch, phase, taken>>

IlPushStep ==
    /\ \/ uart0_txpush_test
       \/ uart0_txpush_store
       \/ uart0_txpush_advance
       \/ uart0_txpush_full
       \/ uart_putc_enable
    /\ UNCHANGED driver

IlPop ==
    /\ phase = "run"
    /\ \/ /\ ch = "tx" /\ UART0_TRANSMIT_INTERRUPT
          /\ taken' = IF UART_TxTail' # UART_TxTail
                      THEN Append(taken, uart0_txpop.data) ELSE taken
       \/ /\ ch = "rx" /\ uart0_rxpop_advance
          /\ taken' = Append(taken, loc.data)
    /\ UNCHANGED <<ch, phase, given>>

IlPopStep ==
    /\ phase = "run" /\ ch = "rx"
    /\ \/ uart0_rxpop_call
       \/ uart0_rxpop_test
       \/ uart0_rxpop_read
       \/ uart0_rxpop_empty
       \/ uart0_rxpop_return
    /\ UNCHANGED driver

NextIL == IlOpen \/ IlPush \/ IlPushStep \/ IlPop \/ IlPopStep

SpecIL == InitIL /\ [][NextIL]_vars

\* The bytes queued in the buffer under test, oldest first.
IlQueue ==
    IF ch = "tx"
    THEN [i \in 1..BitAnd(UART_TxHead + UART_TX_BUFFER_SIZE - UART_TxTail,
                          UART_TX_BUFFER_MASK)
            |-> UART_TxBuf[BitAnd(UART_TxTail + i - 1, UART_TX_BUFFER_MASK)]]
    ELSE [i \in 1..BitAnd(UART_RxHead + UART_RX_BUFFER_SIZE - UART_RxTail,
                          UART_RX_BUFFER_MASK)
            |-> UART_RxBuf[BitAnd(UART_RxTail + i - 1, UART_RX_BUFFER_MASK)]]

\* C6: with up to 5 pushes of any byte values into the capacity-8 buffer,
\* interleaved with pops at every preemption point, the bytes the consumer
\* has popped are the first of the pushed bytes, in order; whenever no
\* foreground call is in progress the popped bytes followed by the queued
\* bytes are exactly the pushed bytes (nothing dropped, nothing duplicated).
C6_InterleavedFifo ==
    (phase = "run" /\ Len(given) <= IlPushes)
        => /\ Len(taken) <= Len(given)
           /\ \A i \in 1..Len(taken) : taken[i] = given[i]
           /\ pc = "idle" => taken \o IlQueue = given

\* Five bytes were pushed and popped, the last one by a handler that ran
\* between the push's index update and the end of uart_putc.
C6_Witness ==
    /\ ch = "tx" /\ pc = "putc_enable"
    /\ Len(given) = IlPushes /\ taken = given
    /\ \E i \in 1..Len(given) : given[i] # given[1]
    /\ UART_TxHead = UART_TxTail

(***************************************************************************)
(* SpecIL1: uart1_putc statement by statement against the transmit-ready   *)
(* handler of channel 1.  phase = "open": the application opens the        *)
(* channel first; phase = "run" from the start: it writes without having   *)
(* opened it, with interrupts globally enabled or not.  given is the       *)
(* sequence of bytes passed to uart1_putc.  SpecIL1Fair adds what the      *)
(* hardware guarantees: the foreground keeps executing and an enabled      *)
(* handler eventually runs.                                                *)
(***************************************************************************)
Il1Bytes == {0, 65}
MaxIl1Put == 9

InitIL1 ==
    /\ ProgInit
    /\ ch = 1 /\ phase \in {"open", "run"} /\ given = <<>> /\ taken = <<>>

Il1Open ==
    /\ phase = "open" /\ Open(1)
    /\ phase' = "run" /\ UNCHANGED <<ch, given, taken>>

Il1Put ==
    /\ phase = "run" /\ Len(given) < MaxIl1Put
    /\ \E d \in Il1Bytes : uart1_putc_call(d) /\ given' = Append(given, d)
    /\ UNCHANGED <<ch, phase, taken>>

Il1Step ==
    /\ \/ uart1_putc_wait
       \/ uart1_putc_store
       \/ uart1_putc_advance
       \/ uart1_putc_load
       \/ uart1_putc_enable
    /\ UNCHANGED driver

Il1Fire ==
    /\ phase = "run" /\ UART1_TRANSMIT_INTERRUPT
    /\ UNCHANGED driver

NextIL1 == Il1Open \/ Il1Put \/ Il1Step \/ Il1Fire

SpecIL1 == InitIL1 /\ [][NextIL1]_vars

SpecIL1Fair == SpecIL1 /\ WF_vars(Il1Step) /\ WF_vars(Il1Fire)

IsPrefix(s, t) == Len(s) <= Len(t) /\ \A i \in 1..Len(s) : s[i] = t[i]

TxFull1 == BitAnd(UART1_TxHead + 1, UART_TX_BUFFER_MASK) = UART1_TxTail

\* C11: for every sequence of bytes passed to uart1_putc (also longer than
\* N-1) and every interleaving with the transmit-ready handler, the bytes
\* written to the data register are a prefix of the bytes passed, and are
\* all of them once no call is in progress and the buffer is empty.
C11_Tx1NeverLoses ==
    /\ IsPrefix(UART1_DATA, given)
    /\ (pc = "idle" /\ UART1_TxHead = UART1_TxTail) => UART1_DATA = given

\* More bytes than the buffer holds have all reached the data register.
C11_Witness ==
    /\ Len(given) = MaxIl1Put /\ UART1_DATA = given /\ pc = "idle"
    /\ \E i \in 1..Len(given) : given[i] # given[1]

\* C12: a call of uart1_putc that waits in its loop with interrupts
\* globally enabled eventually returns, given that an enabled handler
\* eventually runs; and whenever the transmit buffer of channel 1 is full
\* its transmit-ready interrupt is enabled.
C12_BlockingWriteReturns ==
    /\ [](TxFull1 => "UDRIE" \in UART1_CONTROL)
    /\ (pc = "putc1_wait" /\ SREG_I) ~> (pc = "idle")

\* A call waits on a full buffer with interrupts enabled.
C12_Witness ==
    pc = "putc1_wait" /\ TxFull1 /\ loc.tmphead = UART1_TxTail /\ SREG_I

(***************************************************************************)
(* SpecCtl: every operation and handler of both channels, in any order.    *)
(* given counts the bytes written or received so far, taken the calls of   *)
(* read, flush and available.  With ch = "all" every operation is allowed, *)
(* at most MaxMixed bytes are injected and at most MaxCtlReads such calls  *)
(* are made;                                                               *)
(* with ch = "tx0" only channel 0's write and transmit-ready handler run   *)
(* (after open), with up to MaxPut + 1 writes, which reaches a full        *)
(* transmit buffer.                                                        *)
(***************************************************************************)
CtlTxBytes == {0, 72}
CtlRxInputs == {[usr |-> 0, data |-> 65], [usr |-> FE, data |-> 65]}
MaxMixed == 2
MaxCtlReads == 2

InitCtl ==
    /\ ProgInit
    /\ ch \in {"all", "tx0"} /\ phase = "run" /\ given = 0 /\ taken = 0

CtlOpen ==
    /\ \/ UARTenable(Baud9600, 8, 1, 0)
       \/ ch = "all" /\ UART1enable(Baud9600, 8, 1, 0)
    /\ UNCHANGED driver

CtlWrite ==
    /\ \E d \in CtlTxBytes :
        \/ ch = "all" /\ given < MaxMixed /\ uart_putc(d)
        \/ ch = "tx0" /\ given < MaxPut + 1 /\ uart_putc(d)
        \/ ch = "all" /\ given < MaxMixed /\ uart1_putc(d)
    /\ given' = given + 1
    /\ UNCHANGED <<ch, phase, taken>>

CtlReceive ==
    /\ ch = "all" /\ given < MaxMixed
    /\ \E in \in CtlRxInputs :
        \/ UART0_RECEIVE_INTERRUPT(in.usr, in.data)
        \/ UART1_RECEIVE_INTERRUPT(in.usr, in.data)
    /\ given' = given + 1
    /\ UNCHANGED <<ch, phase, taken>>

CtlTxFire ==
    /\ \/ UART0_TRANSMIT_INTERRUPT
       \/ ch = "all" /\ UART1_TRANSMIT_INTERRUPT
    /\ UNCHANGED driver

CtlRead ==
    /\ ch = "all" /\ taken < MaxCtlReads
    /\ \/ uart_getc
       \/ call_uart0_rxpop
       \/ uart1_getc
       \/ uart_flush
       \/ uart1_flush
       \/ call_uart_available
       \/ call_uart1_available
    /\ taken' = taken + 1
    /\ UNCHANGED <<ch, phase, given>>

NextCtl == CtlOpen \/ CtlWrite \/ CtlReceive \/ CtlTxFire \/ CtlRead

SpecCtl == InitCtl /\ [][NextCtl]_vars

\* C9: after every successful write the channel's transmit-ready interrupt
\* is enabled; and a step that takes the interrupt from disabled to enabled
\* is a successful write on that channel (no other operation, failed write
\* or handler enables it).
C9_OnlyWriteEnablesUdrie ==
    [][ /\ \A d \in CtlTxBytes :
            /\ (uart_putc(d) /\ uart0_txpush(d).ret # 0) => "UDRIE" \in UART0_CONTROL'
            /\ uart1_putc(d) => "UDRIE" \in UART1_CONTROL'
        /\ ("UDRIE" \notin UART0_CONTROL /\ "UDRIE" \in UART0_CONTROL')
            => \E d \in CtlTxBytes : uart_putc(d) /\ uart0_txpush(d).ret # 0
        /\ ("UDRIE" \notin UART1_CONTROL /\ "UDRIE" \in UART1_CONTROL')
            => \E d \in CtlTxBytes : uart1_putc(d) ]_vars

\* A write was accepted after the handler had disabled the interrupt, and
\* the interrupt is enabled again.
C9_Witness ==
    /\ "UDRIE" \in UART0_CONTROL
    /\ UART_TxTail # 0 /\ UART_TxHead # UART_TxTail

\* A step of an operation or handler of channel 0 / of channel 1.
Ch0Step ==
    \/ UARTenable(Baud9600, 8, 1, 0)
    \/ \E d \in CtlTxBytes : uart_putc(d)
    \/ uart_getc \/ call_uart0_rxpop \/ uart_flush \/ call_uart_available
    \/ \E in \in CtlRxInputs : UART0_RECEIVE_INTERRUPT(in.usr, in.data)
    \/ UART0_TRANSMIT_INTERRUPT

Ch1Step ==
    \/ UART1enable(Baud9600, 8, 1, 0)
    \/ \E d \in CtlTxBytes : uart1_putc(d)
    \/ uart1_getc \/ uart1_flush \/ call_uart1_available
    \/ \E in \in CtlRxInputs : UART1_RECEIVE_INTERRUPT(in.usr, in.data)
    \/ UART1_TRANSMIT_INTERRUPT

\* C13: no operation or handler of channel 1 changes the storage, indices
\* or error latch of channel 0, and none of channel 0 those of channel 1;
\* a byte received on channel 1 is stored in channel 1's receive storage.
C13_ChannelIsolation ==
    [][ /\ Ch1Step => UNCHANGED prog0
        /\ Ch0Step => UNCHANGED prog1
        /\ \A in \in CtlRxInputs :
            (~RxFull1 /\ UART1_RECEIVE_INTERRUPT(in.usr, in.data))
                => UART1_RxBuf'[UART1_RxHead'] = StoredFor(in) ]_vars

\* C17: after flush() the receive buffer is empty and the next read()
\* returns NoData; a second flush() right after changes nothing.
C17_FlushEmptiesIdempotent ==
    [][ /\ uart_flush
            => /\ UART_RxHead' = UART_RxTail'
               /\ (uart_getc_result.ret)' = UART_NO_DATA
        /\ (uart_flush /\ UART_RxHead = UART_RxTail)
            => UNCHANGED <<prog0, prog1, SREG_I, hw0, hw1>>
        /\ uart1_flush
            => /\ UART1_RxHead' = UART1_RxTail'
               /\ (uart1_getc_result.ret)' = UART_NO_DATA
        /\ (uart1_flush /\ UART1_RxHead = UART1_RxTail)
            => UNCHANGED <<prog0, prog1, SREG_I, hw0, hw1>> ]_vars

\* C18: once a channel is open, a head index is written only by the
\* buffer's producer (receive handler, write) and a tail index only by its
\* consumer (read, transmit-ready handler); flush() sets the receive tail to
\* the head and leaves the receive head and the storage unchanged.
C18_SingleWriterIndices ==
    [][ /\ UART_RxHead' # UART_RxHead
            => \/ \E in \in CtlRxInputs : UART0_RECEIVE_INTERRUPT(in.usr, in.data)
               \/ UARTenable(Baud9600, 8, 1, 0)
        /\ UART_RxTail' # UART_RxTail
            => uart_getc \/ call_uart0_rxpop \/ uart_flush
                 \/ UARTenable(Baud9600, 8, 1, 0)
        /\ UART_TxHead' # UART_TxHead
            => \/ \E d \in CtlTxBytes : uart_putc(d)
               \/ UARTenable(Baud9600, 8, 1, 0)
        /\ UART_TxTail' # UART_TxTail
            => UART0_TRANSMIT_INTERRUPT \/ UARTenable(Baud9600, 8, 1, 0)
        /\ UART1_RxHead' # UART1_RxHead
            => \/ \E in \in CtlRxInputs : UART1_RECEIVE_INTERRUPT(in.usr, in.data)
               \/ UART1enable(Baud9600, 8, 1, 0)
        /\ UART1_RxTail' # UART1_RxTail
            => uart1_getc \/ uart1_flush \/ UART1enable(Baud9600, 8, 1, 0)
        /\ UART1_TxHead' # UART1_TxHead
            => \/ \E d \in CtlTxBytes : uart1_putc(d)
               \/ UART1enable(Baud9600, 8, 1, 0)
        /\ UART1_TxTail' # UART1_TxTail
            => UART1_TRANSMIT_INTERRUPT \/ UART1enable(Baud9600, 8, 1, 0)
        /\ uart_flush
            => UART_RxTail' = UART_RxHead /\ UNCHANGED <<UART_RxHead, UART_RxBuf>>
        /\ uart1_flush
            => UART1_RxTail' = UART1_RxHead
                 /\ UNCHANGED <<UART1_RxHead, UART1_RxBuf>> ]_vars

\* C20: open returns with the global interrupt flag as it was when open was
\* called, for both values of the flag.
C20_OpenRestoresInterruptFlag ==
    [][ /\ UARTenable(Baud9600, 8, 1, 0) => SREG_I' = SREG_I
        /\ UART1enable(Baud9600, 8, 1, 0) => SREG_I' = SREG_I ]_vars

(***************************************************************************)
(* SpecIdx: each of the four ring buffers in turn (ch names it), with its  *)
(* operations and its handler in any order and open at any time, and up to *)
(* MaxIdxOps bytes written or received, which takes every index around the *)
(* ring.  A string written with uart_puts is a sequence of uart_putc       *)
(* calls.  given counts the bytes written or received.                     *)
(***************************************************************************)
MaxIdxOps == 9
IdxRxInput == [usr |-> 0, data |-> 65]
IdxTxByte == 72

InitIdx ==
    /\ ProgInit
    /\ ch \in {"tx0", "rx0", "tx1", "rx1"}
    /\ phase = "run" /\ given = 0 /\ taken = 0

IdxOpen ==
    /\ \/ ch \in {"tx0", "rx0"} /\ UARTenable(Baud9600, 8, 1, 0)
       \/ ch \in {"tx1", "rx1"} /\ UART1enable(Baud9600, 8, 1, 0)
    /\ UNCHANGED driver

IdxWrite ==
    /\ given < MaxIdxOps
    /\ \/ ch = "tx0" /\ uart_putc(IdxTxByte)
       \/ ch = "tx1" /\ uart1_putc(IdxTxByte)
    /\ given' = given + 1
    /\ UNCHANGED <<ch, phase, taken>>

IdxReceive ==
    /\ given < MaxIdxOps
    /\ \/ ch = "rx0" /\ UART0_RECEIVE_INTERRUPT(IdxRxInput.usr, IdxRxInput.data)
       \/ ch = "rx1" /\ UART1_RECEIVE_INTERRUPT(IdxRxInput.usr, IdxRxInput.data)
    /\ given' = given + 1
    /\ UNCHANGED <<ch, phase, taken>>

IdxTxFire ==
    /\ \/ ch = "tx0" /\ UART0_TRANSMIT_INTERRUPT
       \/ ch = "tx1" /\ UART1_TRANSMIT_INTERRUPT
    /\ UNCHANGED driver

IdxRead ==
    /\ \/ ch = "rx0" /\ uart_getc
       \/ ch = "rx0" /\ call_uart0_rxpop
       \/ ch = "rx0" /\ uart_flush
       \/ ch = "rx0" /\ call_uart_available
       \/ ch = "rx1" /\ uart1_getc
       \/ ch = "rx1" /\ uart1_flush
       \/ ch = "rx1" /\ call_uart1_available
    /\ UNCHANGED driver

NextIdx == IdxOpen \/ IdxWrite \/ IdxReceive \/ IdxTxFire \/ IdxRead

SpecIdx == InitIdx /\ [][NextIdx]_vars

\* The subscripts the primitives, reads and handlers apply to the transmit
\* and to the receive storage from the present state.
TxSubscripts ==
    {UART_TxHead, BitAnd(UART_TxHead + 1, UART_TX_BUFFER_MASK), UART_TxTail,
     BitAnd(UART1_TxHead + 1, UART_TX_BUFFER_MASK),
     BitAnd(UART1_TxTail + 1, UART_TX_BUFFER_MASK)}
RxSubscripts ==
    {UART_RxHead, BitAnd(UART_RxHead + 1, UART_RX_BUFFER_MASK), UART_RxTail,
     BitAnd(UART1_RxHead + 1, UART_RX_BUFFER_MASK),
     BitAnd(UART1_RxTail + 1, UART_RX_BUFFER_MASK)}

\* C19: all eight indices lie in [0, N), and so does every subscript used
\* by push, pop, read or a handler.
C19_IndicesInRange ==
    /\ {UART_TxHead, UART_TxTail, UART1_TxHead, UART1_TxTail} \subseteq TxIdx
    /\ {UART_RxHead, UART_RxTail, UART1_RxHead, UART1_RxTail} \subseteq RxIdx
    /\ TxSubscripts \subseteq TxIdx
    /\ RxSubscripts \subseteq RxIdx

\* An index has gone round the ring: the head has wrapped below the tail.
C19_Witness ==
    \/ ch = "tx0" /\ given = MaxIdxOps /\ UART_TxHead < UART_TxTail
    \/ ch = "rx1" /\ given = MaxIdxOps /\ UART1_RxHead < UART1_RxTail

(***************************************************************************)
(* UARTenable and UART1enable statement by statement.  loc.arg holds the   *)
(* parameters (its ubrr field is the parameter baudrate, which the         *)
(* function changes), loc.uart the struct being filled in, loc.tSREG the   *)
(* saved status register.                                                  *)
(***************************************************************************)
\* Entry, and tSREG = SREG.
UARTenable_call(baudrate, FDbits, Stopbits, Parity) ==
    /\ pc = "idle"
    /\ pc' = "open_cli"
    /\ loc' = [NoLoc EXCEPT !.arg = [ubrr |-> baudrate, FDbits |-> FDbits,
                                     Stopbits |-> Stopbits, Parity |-> Parity],
                            !.tSREG = SREG_I]
    /\ UNCHANGED <<prog0, prog1, hw0, rest>>

\* Fault variant of UARTenable_cli: interrupt delivery is left as it was.
UARTenable_cli_skipped ==
    /\ pc = "open_cli"
    /\ pc' = "open_txhead"
    /\ UNCHANGED <<loc, prog0, prog1, hw0, rest>>

\* SREG &= ~(1 << GLOBAL_INTERRUPT_ENABLE)
UARTenable_cli ==
    /\ pc = "open_cli"
    /\ SREG_I' = FALSE
    /\ pc' = "open_txhead"
    /\ UNCHANGED <<loc, prog0, prog1, hw0, hw1, baud, objs, regreads, keypad>>

\* The statements after it, one per step, up to the return.
UARTenable_body ==
    LET idx == <<UART_TxHead, UART_TxTail, UART_RxHead, UART_RxTail>>
        regs == <<U2X0, UBRR0, UART0_CONTROL, SREG_I>>
    IN
    /\ UNCHANGED <<UART_TxBuf, UART_RxBuf, UART_LastRxError, prog1, UART0_DATA,
                   hw1, U2X1, UBRR1, uart1, regreads, keypad>>
    /\ \/ /\ pc = "open_txhead" /\ UART_TxHead' = 0 /\ pc' = "open_txtail"
          /\ UNCHANGED <<UART_TxTail, UART_RxHead, UART_RxTail, regs, uart, loc>>
       \/ /\ pc = "open_txtail" /\ UART_TxTail' = 0 /\ pc' = "open_rxhead"
          /\ UNCHANGED <<UART_TxHead, UART_RxHead, UART_RxTail, regs, uart, loc>>
       \/ /\ pc = "open_rxhead" /\ UART_RxHead' = 0 /\ pc' = "open_rxtail"
          /\ UNCHANGED <<UART_TxHead, UART_TxTail, UART_RxTail, regs, uart, loc>>
       \/ /\ pc = "open_rxtail" /\ UART_RxTail' = 0 /\ pc' = "open_obj"
          /\ UNCHANGED <<UART_TxHead, UART_TxTail, UART_RxHead, regs, uart, loc>>
       \/ /\ pc = "open_obj" /\ pc' = "open_u2x"
          /\ loc' = [loc EXCEPT !.uart.ubrr = loc.arg.ubrr]
          /\ UNCHANGED <<idx, regs, uart>>
       \/ /\ pc = "open_u2x" /\ pc' = "open_ubrr"
          /\ IF BitAnd(loc.arg.ubrr, 32768) # 0
             THEN /\ U2X0' = TRUE
                  /\ loc' = [loc EXCEPT !.arg.ubrr = BitAnd(loc.arg.ubrr, 32767)]
             ELSE UNCHANGED <<U2X0, loc>>
          /\ UNCHANGED <<idx, UBRR0, UART0_CONTROL, SREG_I, uart>>
       \/ /\ pc = "open_ubrr" /\ pc' = "open_control"
          /\ UBRR0' = [H |-> U8(loc.arg.ubrr \div 256), L |-> U8(loc.arg.ubrr)]
          /\ UNCHANGED <<idx, U2X0, UART0_CONTROL, SREG_I, uart, loc>>
       \/ /\ pc = "open_control" /\ pc' = "open_frame"
          /\ UART0_CONTROL' = {"RXCIE", "RXEN", "TXEN"}
          /\ UNCHANGED <<idx, U2X0, UBRR0, SREG_I, uart, loc>>
       \/ /\ pc = "open_frame" /\ pc' = "open_restore"
          /\ UART0_CONTROL' = IF loc.arg.FDbits = 9
                              THEN UART0_CONTROL \cup {"UCSZ2"}
                              ELSE UART0_CONTROL \ {"UCSZ2"}
          /\ loc' = [loc EXCEPT !.uart.FDbits = FDbitsOf(loc.arg.FDbits),
                                !.uart.Stopbits = StopbitsOf(loc.arg.Stopbits),
                                !.uart.Parity = ParityOf(loc.arg.Parity)]
          /\ UNCHANGED <<idx, U2X0, UBRR0, SREG_I, uart>>
       \/ /\ pc = "open_restore" /\ pc' = "open_sei"
          /\ SREG_I' = loc.tSREG
          /\ UNCHANGED <<idx, U2X0, UBRR0, UART0_CONTROL, uart, loc>>
       \/ /\ pc = "open_sei" /\ pc' = "idle"
          /\ SREG_I' = TRUE
          /\ uart' = loc.uart
          /\ loc' = NoLoc
          /\ UNCHANGED <<idx, U2X0, UBRR0, UART0_CONTROL>>

\* The same statements in UART1enable.
UART1enable_call(baudrate, FDbits, Stopbits, Parity) ==
    /\ pc = "idle"
    /\ pc' = "open1_cli"
    /\ loc' = [NoLoc EXCEPT !.arg = [ubrr |-> baudrate, FDbits |-> FDbits,
                                     Stopbits |-> Stopbits, Parity |-> Parity],
                            !.tSREG = SREG_I]
    /\ UNCHANGED <<prog0, prog1, hw1, rest1>>

\* SREG &= ~(1 << GLOBAL_INTERRUPT_ENABLE)
UART1enable_cli ==
    /\ pc = "open1_cli"
    /\ SREG_I' = FALSE
    /\ pc' = "open1_txhead"
    /\ UNCHANGED <<loc, prog0, prog1, hw0, hw1, baud, objs, regreads, keypad>>

\* The statements after it, one per step, up to the return.
UART1enable_body ==
    LET idx == <<UART1_TxHead, UART1_TxTail, UART1_RxHead, UART1_RxTail>>
        regs == <<U2X1, UBRR1, UART1_CONTROL, SREG_I>>
    IN
    /\ UNCHANGED <<prog0, UART1_TxBuf, UART1_RxBuf, UART1_LastRxError, hw0,
                   UART1_DATA, U2X0, UBRR0, uart, regreads, keypad>>
    /\ \/ /\ pc = "open1_txhead" /\ UART1_TxHead' = 0 /\ pc' = "open1_txtail"
          /\ UNCHANGED <<UART1_TxTail, UART1_RxHead, UART1_RxTail, regs, uart1, loc>>
       \/ /\ pc = "open1_txtail" /\ UART1_TxTail' = 0 /\ pc' = "open1_rxhead"
          /\ UNCHANGED <<UART1_TxHead, UART1_RxHead, UART1_RxTail, regs, uart1, loc>>
       \/ /\ pc = "open1_rxhead" /\ UART1_RxHead' = 0 /\ pc' = "open1_rxtail"
          /\ UNCHANGED <<UART1_TxHead, UART1_TxTail, UART1_RxTail, regs, uart1, loc>>
       \/ /\ pc = "open1_rxtail" /\ UART1_RxTail' = 0 /\ pc' = "open1_obj"
          /\ UNCHANGED <<UART1_TxHead, UART1_TxTail, UART1_RxHead, regs, uart1, loc>>
       \/ /\ pc = "open1_obj" /\ pc' = "open1_u2x"
          /\ loc' = [loc EXCEPT !.uart.ubrr = loc.arg.ubrr]
          /\ UNCHANGED <<idx, regs, uart1>>
       \/ /\ pc = "open1_u2x" /\ pc' = "open1_ubrr"
          /\ IF BitAnd(loc.arg.ubrr, 32768) # 0
             THEN /\ U2X1' = TRUE
                  /\ loc' = [loc EXCEPT !.arg.ubrr = BitAnd(loc.arg.ubrr, 32767)]
             ELSE UNCHANGED <<U2X1, loc>>
          /\ UNCHANGED <<idx, UBRR1, UART1_CONTROL, SREG_I, uart1>>
       \/ /\ pc = "open1_ubrr" /\ pc' = "open1_control"
          /\ UBRR1' = [H |-> U8(loc.arg.ubrr \div 256), L |-> U8(loc.arg.ubrr)]
          /\ UNCHANGED <<idx, U2X1, UART1_CONTROL, SREG_I, uart1, loc>>
       \/ /\ pc = "open1_control" /\ pc' = "open1_frame"
          /\ UART1_CONTROL' = {"RXCIE", "RXEN", "TXEN"}
          /\ UNCHANGED <<idx, U2X1, UBRR1, SREG_I, uart1, loc>>
       \/ /\ pc = "open1_frame" /\ pc' = "open1_restore"
          /\ UART1_CONTROL' = IF loc.arg.FDbits = 9
                              THEN UART1_CONTROL \cup {"UCSZ2"}
                              ELSE UART1_CONTROL \ {"UCSZ2"}
          /\ loc' = [loc EXCEPT !.uart.FDbits = FDbitsOf(loc.arg.FDbits),
                                !.uart.Stopbits = StopbitsOf(loc.arg.Stopbits),
                                !.uart.Parity = ParityOf(loc.arg.Parity)]
          /\ UNCHANGED <<idx, U2X1, UBRR1, SREG_I, uart1>>
       \/ /\ pc = "open1_restore" /\ pc' = "open1_sei"
          /\ SREG_I' = loc.tSREG
          /\ UNCHANGED <<idx, U2X1, UBRR1, UART1_CONTROL, uart1, loc>>
       \/ /\ pc = "open1_sei" /\ pc' = "idle"
          /\ SREG_I' = TRUE
          /\ uart1' = loc.uart
          /\ loc' = NoLoc
          /\ UNCHANGED <<idx, U2X1, UBRR1, UART1_CONTROL>>

(***************************************************************************)
(* SpecOpen: the application opens and re-opens both channels, statement   *)
(* by statement, up to MaxOpens times in all, with either set of           *)
(* arguments; between two opens it writes bytes, and the four handlers     *)
(* fire whenever their interrupt is enabled, also in the middle of an      *)
(* open.  given counts the opens started, taken the writes and the         *)
(* handler runs (at most MaxOpEvents).                                     *)
(***************************************************************************)
MaxOpens == 3
MaxOpEvents == 3
\* 9600 baud 8N1, and double speed with 9 data bits, 2 stop bits, odd parity.
OpenArgs == {[ubrr |-> Baud9600, FDbits |-> 8, Stopbits |-> 1, Parity |-> 0],
             [ubrr |-> 32768 + Baud9600, FDbits |-> 9, Stopbits |-> 2,
              Parity |-> 3]}

InitOpen ==
    /\ ProgInit
    /\ ch = "all" /\ phase = "run" /\ given = 0 /\ taken = 0

OpCall ==
    /\ given < MaxOpens
    /\ \E a \in OpenArgs :
        \/ UARTenable_call(a.ubrr, a.FDbits, a.Stopbits, a.Parity)
        \/ UART1enable_call(a.ubrr, a.FDbits, a.Stopbits, a.Parity)
    /\ given' = given + 1
    /\ UNCHANGED <<ch, phase, taken>>

OpStep ==
    /\ \/ UARTenable_cli \/ UARTenable_body
       \/ UART1enable_cli \/ UART1enable_body
    /\ UNCHANGED driver

OpWrite ==
    /\ taken < MaxOpEvents
    /\ uart_putc(IdxTxByte) \/ uart1_putc(IdxTxByte)
    /\ taken' = taken + 1
    /\ UNCHANGED <<ch, phase, given>>

OpIsr ==
    /\ taken < MaxOpEvents
    /\ \/ UART0_RECEIVE_INTERRUPT(IdxRxInput.usr, IdxRxInput.data)
       \/ UART1_RECEIVE_INTERRUPT(IdxRxInput.usr, IdxRxInput.data)
       \/ UART0_TRANSMIT_INTERRUPT
       \/ UART1_TRANSMIT_INTERRUPT
    /\ taken' = taken + 1
    /\ UNCHANGED <<ch, phase, given>>

NextOpen == OpCall \/ OpStep \/ OpWrite \/ OpIsr

SpecOpen == InitOpen /\ [][NextOpen]_vars

\* The positions of an open between the statement that suspends interrupt
\* delivery and the statement that restores the status register: the index
\* resets and every write of a UART register.
OpenCritical ==
    {"open_txhead", "open_txtail", "open_rxhead", "open_rxtail", "open_obj",
     "open_u2x", "open_ubrr", "open_control", "open_frame", "open_restore",
     "open1_txhead", "open1_txtail", "open1_rxhead", "open1_rxtail",
     "open1_obj", "open1_u2x", "open1_ubrr", "open1_control", "open1_frame",
     "open1_restore"}

\* C21: from before the first index reset until after the last register
\* write of an open, interrupt delivery is off and the only steps taken are
\* the open's own: no handler of either channel runs in between, whatever
\* the interrupt state was at entry.
C21_OpenIsAtomic ==
    [][(pc \in OpenCritical) => (~SREG_I /\ pc' # pc /\ taken' = taken)]_vars

\* A re-open entered with interrupts on has reset the indices while both
\* the transmit-ready and the receive-complete interrupt of the channel are
\* still enabled and a handler run is still within the bound.
C21_Witness ==
    /\ pc = "open_ubrr" /\ loc.tSREG /\ taken < MaxOpEvents
    /\ {"UDRIE", "RXCIE"} \subseteq UART0_CONTROL
    /\ {"UDRIE", "RXCIE"} \subseteq UART1_CONTROL

MaxCfgOpens == 2
\* UART_BAUD_SELECT of 9600 baud at 16 MHz, and of 2400 baud (416, with a
\* non-zero high byte) with the double-speed bit 15.
CfgArgs ==
    [ubrr : {Baud9600, 32768 + 416},
     FDbits : 4..10, Stopbits : 0..3, Parity : 0..4]

InitCfg ==
    /\ ProgInit
    /\ ch \in {0, 1} /\ phase = "run" /\ given = NoObj /\ taken = 0

CfgOpen ==
    /\ taken < MaxCfgOpens
    /\ \E a \in CfgArgs :
        /\ \/ ch = 0 /\ UARTenable(a.ubrr, a.FDbits, a.Stopbits, a.Parity)
           \/ ch = 1 /\ UART1enable(a.ubrr, a.FDbits, a.Stopbits, a.Parity)
        /\ given' = a
    /\ taken' = taken + 1
    /\ UNCHANGED <<ch, phase>>

NextCfg == CfgOpen

SpecCfg == InitCfg /\ [][NextCfg]_vars

\* C23: the divisor an open writes to the baud registers is its baud
\* parameter b with bit 15 cleared (high register (b AND 0x7FFF) >> 8, low
\* register b AND 0xFF), and after the open the double-speed flag is set if
\* and only if bit 15 of that b is set, in any sequence of opens.
C23_BaudEncoding ==
    [][ taken' # taken =>
          LET b == given'.ubrr
              regs == IF ch = 0 THEN UBRR0' ELSE UBRR1'
              u2x == IF ch = 0 THEN U2X0' ELSE U2X1'
          IN /\ regs.H = BitAnd(b, 32767) \div 256
             /\ regs.L = BitAnd(b, 255)
             /\ u2x <=> (BitAnd(b, 32768) # 0) ]_vars

\* C30: the configuration an open records has data bits in 5..9, stop bits
\* in {1, 2} and parity in {0, 2, 3}: a supported argument as given, an
\* unsupported data-bit count as 8, stop-bit count as 1, parity as 0.
C30_ConfigValid ==
    [][ taken' # taken =>
          LET a == given'
              u == IF ch = 0 THEN uart' ELSE uart1'
          IN /\ u.FDbits \in {5, 6, 7, 8, 9}
             /\ u.Stopbits \in {1, 2}
             /\ u.Parity \in {0, 2, 3}
             /\ u.FDbits = (IF a.FDbits \in {5, 6, 7, 8, 9} THEN a.FDbits ELSE 8)
             /\ u.Stopbits = (IF a.Stopbits \in {1, 2} THEN a.Stopbits ELSE 1)
             /\ u.Parity = (IF a.Parity \in {0, 2, 3} THEN a.Parity ELSE 0) ]_vars

\* Channel 1 was opened with 10 data bits, 3 stop bits and parity code 4,
\* all unsupported, and recorded 8, 1 and none.
C30_Witness ==
    /\ ch = 1 /\ taken > 0
    /\ given.FDbits = 10 /\ given.Stopbits = 3 /\ given.Parity = 4
    /\ uart1.FDbits = 8 /\ uart1.Stopbits = 1 /\ uart1.Parity = 0

(***************************************************************************)
(* The read-a-line operations.  The application passes the struct the open *)
(* returned.  A write at a subscript outside msg lands outside the array:  *)
(* msg keeps its elements and the cursor shows where the write went.       *)
(***************************************************************************)
uart_read ==
    /\ pc = "idle"
    /\ UART_RxTail' = uart0_rxpop.RxTail
    /\ LET data == uart0_rxpop.data
           i == uart.index
           m1 == IF i \in DOMAIN uart.msg THEN [uart.msg EXCEPT ![i] = data]
                 ELSE uart.msg
           m2 == IF i + 1 \in DOMAIN m1 THEN [m1 EXCEPT ![i + 1] = 0] ELSE m1
       IN uart' = IF data # 0 THEN [uart EXCEPT !.msg = m2, !.index = i + 1]
                  ELSE [uart EXCEPT !.index = 0]
    /\ UNCHANGED <<tx0, UART_RxBuf, UART_RxHead, UART_LastRxError, prog1, SREG_I,
                   hw0, hw1, baud, uart1, regreads, keypad, fg>>

uart1_read ==
    /\ pc = "idle"
    /\ LET tmptail == BitAnd(UART1_RxTail + 1, UART_RX_BUFFER_MASK)
           i == uart1.index
           data == UART1_RxBuf[tmptail]
           m1 == IF i \in DOMAIN uart1.msg THEN [uart1.msg EXCEPT ![i] = data]
                 ELSE uart1.msg
           m2 == IF i + 1 \in DOMAIN m1 THEN [m1 EXCEPT ![i + 1] = 0] ELSE m1
       IN IF UART1_RxTail # UART1_RxHead /\ i < UART_RX_BUFFER_MASK
          THEN /\ UART1_RxTail' = tmptail
               /\ uart1' = [uart1 EXCEPT !.msg = m2, !.index = i + 1]
          ELSE /\ uart1' = [uart1 EXCEPT !.index = 0]
               /\ UNCHANGED UART1_RxTail
    /\ UNCHANGED <<prog0, tx1, UART1_RxBuf, UART1_RxHead, UART1_LastRxError,
                   SREG_I, hw0, hw1, baud, uart, regreads, keypad, fg>>

(***************************************************************************)
(* SpecRead: a channel (ch) is opened, receives up to MaxRcv bytes and the *)
(* application calls the read-a-line operation at any time in between.     *)
(* given is the sequence of receptions, all of them without error.         *)
(***************************************************************************)
RdReceive == RxReceive /\ Clean(given'[Len(given')])

\* A call of uart_read / uart1_read; none follows a write outside msg.
\* taken is the sequence of bytes the calls popped since the latest call
\* that appended nothing.
RdRead ==
    /\ phase = "fill"
    /\ \/ /\ ch = 0 /\ uart.index < UART_MSG_SIZE /\ uart_read
          /\ taken' = IF uart0_rxpop.data # 0
                      THEN Append(taken, uart0_rxpop.data) ELSE <<>>
       \/ /\ ch = 1 /\ uart1.index < UART_MSG_SIZE /\ uart1_read
          /\ taken' = IF UART1_RxTail # UART1_RxHead
                         /\ uart1.index < UART_RX_BUFFER_MASK
                      THEN Append(taken, UART1_RxBuf[BitAnd(UART1_RxTail + 1,
                                                     UART_RX_BUFFER_MASK)])
                      ELSE <<>>
    /\ UNCHANGED <<ch, phase, given>>

NextRead == RxOpen \/ RdReceive \/ RdRead

SpecRead == InitRx /\ [][NextRead]_vars

\* C24: the write cursor of the accumulator never leaves msg: the data byte
\* (written at index - 1) and the terminating NUL (written at index) of the
\* latest append both lie inside it, on either channel.
C24_AccumulatorBound ==
    /\ uart.index \in DOMAIN uart.msg
    /\ uart1.index \in DOMAIN uart1.msg

(***************************************************************************)
(* Claims about the receive handlers checked under SpecRx.                 *)
(***************************************************************************)
\* C25: every run of a receive handler, with or without a reception error,
\* reads the status register first and the data register exactly once
\* after it (which clears the receive-complete condition).
C25_StatusThenDataOnce ==
    \A r \in {rx0_reads, rx1_reads} :
        r # <<>> => /\ r[1] = "STATUS"
                    /\ Cardinality({i \in DOMAIN r : r[i] = "DATA"}) = 1
                    /\ \A i \in DOMAIN r : r[i] = "DATA" => i > 1


\* C26: a push writes the data byte into its slot before (at the latest
\* together with) the head index that exposes the slot: whenever a receive
\* handler has advanced a head, the slot the new head exposes holds the byte
\* stored for that reception.  On channel 0 the head names the next free
\* slot, so the slot exposed is the one at the old head; on channel 1 the
\* head names the newest byte, so it is the one at the new head.
C26_PublishAfterWrite ==
    [][ /\ (phase = "fill" /\ UART_RxHead' # UART_RxHead)
            => UART_RxBuf'[UART_RxHead] = StoredFor(given'[Len(given')])
        /\ (phase = "fill" /\ UART1_RxHead' # UART1_RxHead)
            => UART1_RxBuf'[UART1_RxHead'] = StoredFor(given'[Len(given')]) ]_vars


(***************************************************************************)
(* Claims about the pops checked under SpecCtl.                            *)
(***************************************************************************)
\* C27: every successful pop returns the byte stored at the tail index as
\* it was before the pop and advances the tail by exactly one modulo the
\* buffer size: uart_getc, uart0_rxpop, uart0_txpop in its handler,
\* uart1_getc and the transmit handler of channel 1 (whose return value is
\* the byte it writes to the data register).
C27_ReadThenAdvance ==
    [][ /\ (uart_getc /\ UART_RxTail' # UART_RxTail)
            => /\ uart_getc_result.ret % 256 = UART_RxBuf[UART_RxTail]
               /\ UART_RxTail' = (UART_RxTail + 1) % UART_RX_BUFFER_SIZE
        /\ (call_uart0_rxpop /\ UART_RxTail' # UART_RxTail)
            => /\ uart0_rxpop.data = UART_RxBuf[UART_RxTail]
               /\ UART_RxTail' = (UART_RxTail + 1) % UART_RX_BUFFER_SIZE
        /\ (UART0_TRANSMIT_INTERRUPT /\ UART_TxTail' # UART_TxTail)
            => /\ uart0_txpop.data = UART_TxBuf[UART_TxTail]
               /\ UART_TxTail' = (UART_TxTail + 1) % UART_TX_BUFFER_SIZE
        /\ (uart1_getc /\ UART1_RxTail' # UART1_RxTail)
            => /\ uart1_getc_result.ret % 256 = UART1_RxBuf[UART1_RxTail]
               /\ UART1_RxTail' = (UART1_RxTail + 1) % UART_RX_BUFFER_SIZE
        /\ (UART1_TRANSMIT_INTERRUPT /\ UART1_TxTail' # UART1_TxTail)
            => /\ UART1_DATA' = Append(UART1_DATA, UART1_TxBuf[UART1_TxTail])
               /\ UART1_TxTail' = (UART1_TxTail + 1) % UART_TX_BUFFER_SIZE ]_vars


(***************************************************************************)
(* Claims about transmission checked under SpecTx, where writes and        *)
(* handler runs are whole steps: no handler is executing and no write is   *)
(* in progress in any state.                                               *)
(***************************************************************************)
\* C28: on channel 0 a non-empty transmit buffer implies that the
\* transmit-ready interrupt is enabled, so that under fairness of the
\* handler every accepted byte is eventually written to the data register
\* and the channel returns to idle with an empty buffer.
C28_QueuedImpliesEnabled ==
    (ch = 0 /\ UART_TxHead # UART_TxTail) => "UDRIE" \in UART0_CONTROL


(***************************************************************************)
(* uart_available statement by statement: the two indices are read one     *)
(* after the other, in the order the compiler chose (either), and the      *)
(* result is computed from the two values read.                            *)
(***************************************************************************)
\* The value returned, from the values read.
uart_available_result ==
    (UART_RX_BUFFER_MASK + loc.head - loc.tail) % UART_RX_BUFFER_MASK

uart_available_step ==
    /\ \/ /\ pc = "idle" /\ pc' = "avail" /\ loc' = NoLoc
       \/ /\ pc \in {"avail", "avail_t"}
          /\ loc' = [loc EXCEPT !.head = UART_RxHead]
          /\ pc' = IF pc = "avail" THEN "avail_h" ELSE "avail_ret"
       \/ /\ pc \in {"avail", "avail_h"}
          /\ loc' = [loc EXCEPT !.tail = UART_RxTail]
          /\ pc' = IF pc = "avail" THEN "avail_t" ELSE "avail_ret"
       \/ /\ pc = "avail_ret" /\ pc' = "idle" /\ loc' = NoLoc
    /\ UNCHANGED <<prog0, prog1, hw0, rest>>

(***************************************************************************)
(* SpecAv: channel 0 is opened and receives up to MaxAvRcv bytes; the      *)
(* application calls uart_available and uart_getc in any order, and the    *)
(* receive handler fires at any point of a call of uart_available.  given  *)
(* is the sequence of receptions; during a call of uart_available taken is *)
(* the set of values an atomic evaluation yields at the instants of the    *)
(* call so far.                                                            *)
(***************************************************************************)
MaxAvRcv == 9

InitAv ==
    /\ ProgInit
    /\ ch = 0 /\ phase = "open" /\ given = <<>> /\ taken = {}

AvStep ==
    /\ phase = "fill"
    /\ uart_available_step \/ uart_getc
    /\ taken' = IF pc' = "idle" THEN taken
                ELSE IF pc = "idle" THEN {uart_available'}
                ELSE taken \cup {uart_available'}
    /\ UNCHANGED <<ch, phase, given>>

AvReceive ==
    /\ phase = "fill" /\ Len(given) < MaxAvRcv
    /\ UART0_RECEIVE_INTERRUPT(IdxRxInput.usr, IdxRxInput.data)
    /\ given' = Append(given, IdxRxInput)
    /\ taken' = IF pc = "idle" THEN taken ELSE taken \cup {uart_available'}
    /\ UNCHANGED <<ch, phase>>

NextAv == RxOpen \/ AvStep \/ AvReceive

SpecAv == InitAv /\ [][NextAv]_vars

\* C29: the value a call of uart_available returns, with the receive
\* handler free to run between its two reads (in either order), is a value
\* that an atomic evaluation yields at some instant of the call.
C29_AvailableLinearizable ==
    pc = "avail_ret" => uart_available_result \in taken

\* A call is about to return a value taken before the handler ran: an
\* atomic evaluation now yields another value.
C29_Witness ==
    /\ pc = "avail_ret"
    /\ uart_available_result # uart_available
    /\ loc.head # UART_RxHead


MM74C923_KEY_CODE ==
    LET t == <<65, 66, 67, 69, 71, 72, 73, 74, 77, 78, 79, 80, 81, 82, 83, 84,
               86, 88, 89, 90,
               48, 48, 48, 48, 48, 48, 48, 48, 48, 48, 48, 48,
               76, 45, 43, 70, 55, 56, 57, 35,
               52, 53, 54, 85, 49, 50, 51, 68, 48, 47, 46, 42, 0>>
    IN [k \in 0..(Len(t) - 1) |-> t[k + 1]]

DataPins == {"DATA_OUT_A", "DATA_OUT_B", "DATA_OUT_C", "DATA_OUT_D",
             "DATA_OUT_E", "EXTRA_DATA_OUT_PIN"}

\* func.lh / func.hl (function.h): the pins that went from 0 to 1, and from
\* 1 to 0, between the snapshots xi and xf.
lh(xi, xf) == xf \ xi
hl(xi, xf) == xi \ xf

\* The index the decoder assembles from the data pins of the snapshot c.
KeyIndex(c) ==
    (IF "DATA_OUT_A" \in c THEN 1 ELSE 0) + (IF "DATA_OUT_B" \in c THEN 2 ELSE 0)
    + (IF "DATA_OUT_C" \in c THEN 4 ELSE 0) + (IF "DATA_OUT_D" \in c THEN 8 ELSE 0)
    + (IF "DATA_OUT_E" \in c THEN 16 ELSE 0)
    + (IF "EXTRA_DATA_OUT_PIN" \in c THEN 32 ELSE 0)

\* The body MM74C923_getch and MM74C923_getch_oneshot share: mem is the
\* remembered snapshot, c the snapshot read on entry, c2 the snapshot read
\* after the outputs of the encoder were enabled.
MM74C923_index(mem, c, c2) ==
    IF "DATA_AVAILABLE" \in lh(mem, c) THEN KeyIndex(c2) ELSE 52
MM74C923_port(mem, c) ==
    IF "DATA_AVAILABLE" \in lh(mem, c) THEN mm74c923_PORT \ {"OUTPUT_ENABLE"}
    ELSE IF "DATA_AVAILABLE" \in hl(mem, c)
         THEN mm74c923_PORT \cup {"OUTPUT_ENABLE"}
         ELSE mm74c923_PORT

\* The values MM74C923_KEY_CODE[index] can yield: the entry, or, beyond the
\* end of the table, whatever byte lies there (a NUL, a '*' or a letter).
KeyChar(index) ==
    IF index \in DOMAIN MM74C923_KEY_CODE THEN {MM74C923_KEY_CODE[index]}
    ELSE {0, 42, 65}

uartvars == <<prog0, prog1, SREG_I, hw0, hw1, baud, objs, regreads, fg>>

MM74C923enable ==
    /\ mm74c923_DDR' = {"OUTPUT_ENABLE"}
    /\ mm74c923_PORT' = DataPins \cup {"DATA_AVAILABLE", "OUTPUT_ENABLE"}
    /\ mm74c923_getchmem' = {} /\ mm74c923_getch_oneshotmem' = {}
    /\ mm74c923_i' = 0
    /\ UNCHANGED <<MM74C923_string, uartvars>>

\* Each of the two returns an element of KeyChar(MM74C923_index(..)).
MM74C923_getch_oneshot(c, c2) ==
    /\ mm74c923_getch_oneshotmem' = c
    /\ mm74c923_PORT' = MM74C923_port(mm74c923_getch_oneshotmem, c)
    /\ UNCHANGED <<mm74c923_DDR, mm74c923_getchmem, uartvars>>

MM74C923_getch(c, c2) ==
    /\ mm74c923_getchmem' = c
    /\ mm74c923_PORT' = MM74C923_port(mm74c923_getchmem, c)
    /\ UNCHANGED <<mm74c923_DDR, mm74c923_getch_oneshotmem, mm74c923_i,
                   MM74C923_string, uartvars>>

\* MM74C923_gets, r being the character its call of MM74C923_getch_oneshot
\* returned.  A write outside MM74C923_string leaves the array as it is; the
\* cursor shows that it happened.
MM74C923_gets(c, c2, r) ==
    /\ MM74C923_getch_oneshot(c, c2)
    /\ r \in KeyChar(MM74C923_index(mm74c923_getch_oneshotmem, c, c2))
    /\ LET i == IF mm74c923_i = MM74C923_STR_SIZE THEN 0 ELSE mm74c923_i
           s1 == [MM74C923_string EXCEPT ![i] = r]
           s2 == IF i + 1 \in DOMAIN s1 THEN [s1 EXCEPT ![i + 1] = 0] ELSE s1
       IN IF r = 42
          THEN mm74c923_i' = 0 /\ UNCHANGED MM74C923_string
          ELSE IF r # 0
               THEN mm74c923_i' = i + 1 /\ MM74C923_string' = s2
               ELSE UNCHANGED <<mm74c923_i, MM74C923_string>>

(***************************************************************************)
(* SpecKey: the keypad is enabled and the application keeps calling one of *)
(* MM74C923_getch, MM74C923_getch_oneshot and MM74C923_gets (ch) while the *)
(* pins change at will.  given is the level of the data-available line in  *)
(* the remembered snapshot and in the snapshot read on entry of the latest *)
(* call, taken the index that call used and the character it returned.     *)
(***************************************************************************)
\* Snapshots read on entry: data-available low or high, the data lines idle
\* or all high.
EntryReads == {{}, {"DATA_AVAILABLE"}, DataPins \cup {"DATA_AVAILABLE"}}
\* Snapshots MM74C923_gets reads after enabling the outputs: the keys 'A'
\* and 'B', '*', the NUL entry and the largest index the pins can form.
KeyReads == {c \in SUBSET DataPins : KeyIndex(c) \in {0, 1, 51, 52, 63}}

InitKey ==
    /\ ProgInit
    /\ ch \in {"getch", "getch_oneshot", "gets"} /\ phase = "open"
    /\ given = [was |-> FALSE, is |-> FALSE] /\ taken = [index |-> 52, ret |-> 0]

KeyOpen ==
    /\ phase = "open" /\ MM74C923enable
    /\ phase' = "run" /\ UNCHANGED <<ch, given, taken>>

KeyCall(mem, c, c2, r) ==
    /\ phase = "run"
    /\ given' = [was |-> "DATA_AVAILABLE" \in mem, is |-> "DATA_AVAILABLE" \in c]
    /\ taken' = [index |-> MM74C923_index(mem, c, c2), ret |-> r]
    /\ UNCHANGED <<ch, phase>>

KeyGetch ==
    \E c \in EntryReads, c2 \in SUBSET DataPins :
        \/ /\ ch = "getch" /\ MM74C923_getch(c, c2)
           /\ \E r \in KeyChar(MM74C923_index(mm74c923_getchmem, c, c2)) :
                 KeyCall(mm74c923_getchmem, c, c2, r)
        \/ /\ ch = "getch_oneshot" /\ MM74C923_getch_oneshot(c, c2)
           /\ UNCHANGED <<mm74c923_i, MM74C923_string>>
           /\ \E r \in KeyChar(MM74C923_index(mm74c923_getch_oneshotmem, c, c2)) :
                 KeyCall(mm74c923_getch_oneshotmem, c, c2, r)

KeyGets ==
    /\ ch = "gets"
    /\ \E c \in EntryReads, c2 \in KeyReads :
          \E r \in KeyChar(MM74C923_index(mm74c923_getch_oneshotmem, c, c2)) :
             MM74C923_gets(c, c2, r) /\ KeyCall(mm74c923_getch_oneshotmem, c, c2, r)

NextKey == KeyOpen \/ KeyGetch \/ KeyGets

SpecKey == InitKey /\ [][NextKey]_vars

\* C32: every write of MM74C923_gets lands inside MM74C923_string: after a
\* call the cursor mm74c923_i, where the terminating NUL was written, is an
\* index of the array (0..MM74C923_STR_SIZE-1), and after a '*' it is 0.
C32_LineInBounds ==
    (phase = "run" /\ ch = "gets") =>
        /\ mm74c923_i \in DOMAIN MM74C923_string
        /\ (taken.ret = 42) => (mm74c923_i = 0)

\* C33: the index a call of MM74C923_getch / MM74C923_getch_oneshot uses
\* lies within MM74C923_KEY_CODE (0..52), and unless the call saw the
\* data-available line go from low to high it used the NUL entry and
\* returned NUL.
C33_DecodeInBounds ==
    (phase = "run" /\ ch \in {"getch", "getch_oneshot"}) =>
        /\ taken.index \in DOMAIN MM74C923_KEY_CODE
        /\ (~(~given.was /\ given.is)) => (taken.index = 52 /\ taken.ret = 0)

====
